---- MODULE Spec2Model ----
(***************************************************************************)
(* The indexed-map codec of c-dns: the code that the derive macros         *)
(* SerializeIndexed / DeserializeIndexed (serde-indexed/src/lib.rs)        *)
(* generate for the record types of c-dns/src/serialization.rs, run        *)
(* against the map interface of serde_cbor.                                *)
(*                                                                         *)
(* A CBOR map on the wire is [hdr, entries]: hdr is Some(n) for a          *)
(* definite-length header announcing n entries and None for an             *)
(* indefinite-length header closed by a break; entries is the sequence of  *)
(* <<key, value>> pairs.  Values of fields are atoms (Val) or CBOR null.   *)
(* An Option is a sequence of length at most one: <<>> is None, <<v>> is   *)
(* Some(v).  A BTreeMap is a function from its keys to its values.         *)
(***************************************************************************)
EXTENDS Integers, Sequences, FiniteSets, TLC

\* Largest number of entries of an input map.
MaxLen == 3
\* Largest number of entries of a caller-built extra_values map.
MaxExtras == 1

Null == "null"
Val == {"a", "b"}
CborVal == Val \cup {Null}
\* the values the entries of an input map draw from
WireVal == {Null, "a"}
NegKeys == {-2, -1}

None == <<>>
Some(x) == <<x>>

---------------------------------------------------------------------------
(* The parsed derive input: parse.rs *)

\* mutant: the keys of every struct start at 1 unless an offset is given
StructAttrsOffsetOne == [offset |-> 1, emit_length |-> TRUE]

StructAttrsDefault == [offset |-> 0, emit_length |-> TRUE]

\* One parsed struct field; its index is its position in the declaration
\* (0-based, so the field at position p of the sequence has index p - 1).
\* optional: the declared type is Option<_>.
\* skip_serializing_if: Some(Option::is_none), written by hand or added by
\* #[skip_serializing_none] to every Option field.
Field(label, optional, skip, extras) ==
    [label |-> label, optional |-> optional,
     skip_serializing_if |-> skip, collect_extras |-> extras]

Req(label) == Field(label, FALSE, FALSE, FALSE)
Opt(label) == Field(label, TRUE, TRUE, FALSE)
Extras == Field("extra_values", FALSE, FALSE, TRUE)

FilePreamble ==
    [ident |-> "FilePreamble", attrs |-> StructAttrsDefault,
     fields |-> << Req("major_format_version"), Req("minor_format_version"),
                   Opt("private_version"), Req("block_parameters"), Extras >>]

Block ==
    [ident |-> "Block",
     attrs |-> [StructAttrsDefault EXCEPT !.emit_length = FALSE],
     fields |-> << Req("block_preamble"), Opt("block_statistics"),
                   Opt("block_tables"), Opt("query_responses"),
                   Opt("address_event_counts"), Opt("malformed_messages"),
                   Extras >>]

BlockPreamble ==
    [ident |-> "BlockPreamble", attrs |-> StructAttrsDefault,
     fields |-> << Opt("earliest_time"), Opt("block_parameters_index"),
                   Extras >>]

ClassType ==
    [ident |-> "ClassType", attrs |-> StructAttrsDefault,
     fields |-> << Req("type_"), Req("class") >>]

Question ==
    [ident |-> "Question",
     attrs |-> [StructAttrsDefault EXCEPT !.emit_length = FALSE],
     fields |-> << Req("name_index"), Req("classtype_index") >>]

SomeKeys ==
    [ident |-> "SomeKeys",
     attrs |-> [StructAttrsDefault EXCEPT !.offset = 1],
     fields |-> << Req("number"), Req("bytes"), Req("string"),
                   Opt("option"), Req("vector") >>]

RecordTypes == {FilePreamble, Block, BlockPreamble, ClassType, Question, SomeKeys}
\* The record types whose input maps are enumerated.  Block and SomeKeys
\* are deserialized from the bytes that serializing their values produces.
ByteTypes == {FilePreamble, BlockPreamble, ClassType, Question}

\* field.index of every field (fields_from_ast enumerates from 0)
Indices(input) == 0 .. (Len(input.fields) - 1)
FieldAt(input, i) == input.fields[i + 1]
Labels(input) == {FieldAt(input, i).label : i \in Indices(input)}

\* the fields annotated #[serde_indexed(extras)]; the derive rejects more
\* than one
extra_fields(input) == {i \in Indices(input) : FieldAt(input, i).collect_extras}
has_extras(input) == extra_fields(input) # {}
extra_field(input) == FieldAt(input, CHOOSE i \in extra_fields(input) : TRUE)

---------------------------------------------------------------------------
(* BTreeMap<isize, Value> *)

EmptyMap == <<>>

\* mutant: a sorted vector that is only appended to, so that a key below
\* the last one is dropped
InsertAppendOnly(m, k, v) ==
    IF \A y \in DOMAIN m : y < k
    THEN [y \in (DOMAIN m) \cup {k} |-> IF y = k THEN v ELSE m[y]]
    ELSE m

\* mutant: the value of a key that is already in the map is kept
InsertKeepFirst(m, k, v) ==
    IF k \in DOMAIN m THEN m
    ELSE [y \in (DOMAIN m) \cup {k} |-> IF y = k THEN v ELSE m[y]]

Insert(m, k, v) == [x \in (DOMAIN m) \cup {k} |-> IF x = k THEN v ELSE m[x]]

RECURSIVE SortedKeys(_)
\* the keys of a set in ascending order: BTreeMap iteration order
SortedKeys(S) ==
    IF S = {} THEN <<>>
    ELSE LET k == CHOOSE x \in S : \A y \in S : x <= y
         IN  <<k>> \o SortedKeys(S \ {k})

\* mutant: a map that is walked from its greatest key down
IterDescending(m) ==
    LET ks == SortedKeys(DOMAIN m)
    IN  [p \in 1 .. Len(ks) |-> <<ks[Len(ks) + 1 - p], m[ks[Len(ks) + 1 - p]]>>]

\* for (key, value) in &map
Iter(m) == LET ks == SortedKeys(DOMAIN m)
           IN  [p \in 1 .. Len(ks) |-> <<ks[p], m[ks[p]]>>]

---------------------------------------------------------------------------
(* Deserialization: the code derive_deserialize generates *)

Err(kind, label) == [kind |-> kind, label |-> label]

\* mutant: the loop runs size_hint() times, which is nothing for a map of
\* indefinite length
next_key_sized(wire, pos) ==
    IF wire.hdr # None /\ pos < wire.hdr[1]
    THEN Some(wire.entries[pos + 1][1])
    ELSE None

\* map.next_key() of serde_cbor's MapAccess after pos entries were read:
\* a definite-length map ends when the announced count is used up, an
\* indefinite-length map ends at the break that follows the last entry.
next_key(wire, pos) ==
    IF wire.hdr # None
    THEN IF pos < wire.hdr[1] THEN Some(wire.entries[pos + 1][1]) ELSE None
    ELSE IF pos < Len(wire.entries) THEN Some(wire.entries[pos + 1][1]) ELSE None

\* mutant: CBOR null is a value like any other for an Option<T>
next_value_null_is_some(field, v) ==
    IF field.optional
    THEN [ok |-> TRUE, val |-> Some(v)]
    ELSE IF v = Null
         THEN [ok |-> FALSE, val |-> Err("invalid_type", field.label)]
         ELSE [ok |-> TRUE, val |-> v]

\* map.next_value() into the declared type of a field: an Option<T> takes
\* CBOR null as None and anything else as Some, a plain T rejects null.
next_value(field, v) ==
    IF field.optional
    THEN [ok |-> TRUE, val |-> IF v = Null THEN None ELSE Some(v)]
    ELSE IF v = Null
         THEN [ok |-> FALSE, val |-> Err("invalid_type", field.label)]
         ELSE [ok |-> TRUE, val |-> v]

\* let mut #ident = None; for every field but the extras field, which is
\* initialised with Default::default()
none_fields(input) ==
    [l \in Labels(input) |->
        IF has_extras(input) /\ l = extra_field(input).label
        THEN EmptyMap ELSE None]

\* the indices that keep a match arm: match_fields.remove(extra_field.index)
match_fields(input) == Indices(input) \ extra_fields(input)

\* mutant: a field that was given as null counts as not yet set
the_loop_body_refill(input, locals, key, value) ==
    LET hit == {i \in match_fields(input) : i + input.attrs.offset = key}
    IN  IF hit # {}
        THEN LET field == FieldAt(input, CHOOSE i \in hit : TRUE)
                 nv == next_value(field, value)
             IN  IF locals[field.label] # None
                    /\ ~ (field.optional /\ locals[field.label] = Some(None))
                 THEN [locals |-> locals,
                       error |-> Some(Err("duplicate_field", field.label))]
                 ELSE IF ~ nv.ok
                 THEN [locals |-> locals, error |-> Some(nv.val)]
                 ELSE [locals |-> [locals EXCEPT ![field.label] = Some(nv.val)],
                       error |-> None]
        ELSE IF key < 0
        THEN \* handle_extra_fields
             IF has_extras(input)
             THEN [locals |-> [locals EXCEPT ![extra_field(input).label] =
                                   Insert(@, key, value)],
                   error |-> None]
             ELSE [locals |-> locals, error |-> None]
        ELSE [locals |-> locals,
              error |-> Some(Err("duplicate_field", "inexistent field index"))]

\* mutant: every key that selects no field is collected, whatever its sign
the_loop_body_collect_all(input, locals, key, value) ==
    LET hit == {i \in match_fields(input) : i + input.attrs.offset = key}
    IN  IF hit # {}
        THEN LET field == FieldAt(input, CHOOSE i \in hit : TRUE)
                 nv == next_value(field, value)
             IN  IF locals[field.label] # None
                 THEN [locals |-> locals,
                       error |-> Some(Err("duplicate_field", field.label))]
                 ELSE IF ~ nv.ok
                 THEN [locals |-> locals, error |-> Some(nv.val)]
                 ELSE [locals |-> [locals EXCEPT ![field.label] = Some(nv.val)],
                       error |-> None]
        ELSE IF has_extras(input)
             THEN [locals |-> [locals EXCEPT ![extra_field(input).label] =
                                   Insert(@, key, value)],
                   error |-> None]
             ELSE [locals |-> locals, error |-> None]

\* mutant: without an extras field a negative key is an unknown key
the_loop_body_reject_negative(input, locals, key, value) ==
    LET hit == {i \in match_fields(input) : i + input.attrs.offset = key}
    IN  IF hit # {}
        THEN LET field == FieldAt(input, CHOOSE i \in hit : TRUE)
                 nv == next_value(field, value)
             IN  IF locals[field.label] # None
                 THEN [locals |-> locals,
                       error |-> Some(Err("duplicate_field", field.label))]
                 ELSE IF ~ nv.ok
                 THEN [locals |-> locals, error |-> Some(nv.val)]
                 ELSE [locals |-> [locals EXCEPT ![field.label] = Some(nv.val)],
                       error |-> None]
        ELSE IF key < 0 /\ has_extras(input)
        THEN [locals |-> [locals EXCEPT ![extra_field(input).label] =
                              Insert(@, key, value)],
              error |-> None]
        ELSE [locals |-> locals,
              error |-> Some(Err("duplicate_field", "inexistent field index"))]

\* One iteration of the_loop: the match on the key.  Returns the locals
\* and, when the arm returns early, the error.
the_loop_body(input, locals, key, value) ==
    LET hit == {i \in match_fields(input) : i + input.attrs.offset = key}
    IN  IF hit # {}
        THEN LET field == FieldAt(input, CHOOSE i \in hit : TRUE)
                 nv == next_value(field, value)
             IN  IF locals[field.label] # None
                 THEN [locals |-> locals,
                       error |-> Some(Err("duplicate_field", field.label))]
                 ELSE IF ~ nv.ok
                 THEN [locals |-> locals, error |-> Some(nv.val)]
                 ELSE [locals |-> [locals EXCEPT ![field.label] = Some(nv.val)],
                       error |-> None]
        ELSE IF key < 0
        THEN \* handle_extra_fields
             IF has_extras(input)
             THEN [locals |-> [locals EXCEPT ![extra_field(input).label] =
                                   Insert(@, key, value)],
                   error |-> None]
             ELSE [locals |-> locals, error |-> None]
        ELSE [locals |-> locals,
              error |-> Some(Err("duplicate_field", "inexistent field index"))]

\* mutant: a missing field of any type takes a default
missing_field_default(field) == [ok |-> TRUE, val |-> None]

\* crate::derive_helpers::missing_field(label) at the declared type
missing_field(field) ==
    IF field.optional
    THEN [ok |-> TRUE, val |-> None]
    ELSE [ok |-> FALSE, val |-> Err("missing_field", field.label)]

\* the indices whose local is unwrapped: all but the extras field
unwrap_indices(input) == Indices(input) \ extra_fields(input)

\* the first field, in declaration order, whose unwrapping returns early
first_missing(input, locals) ==
    {i \in unwrap_indices(input) :
        /\ locals[FieldAt(input, i).label] = None
        /\ ~ missing_field(FieldAt(input, i)).ok
        /\ \A j \in unwrap_indices(input) :
              (j < i /\ locals[FieldAt(input, j).label] = None)
                 => missing_field(FieldAt(input, j)).ok}

\* the field declared under a label
FieldOf(input, l) == FieldAt(input, CHOOSE i \in Indices(input) : FieldAt(input, i).label = l)

\* unwrap_expected_fields followed by Ok(#ident { all_fields })
unwrap_expected_fields(input, locals) ==
    IF first_missing(input, locals) # {}
    THEN [ok |-> FALSE,
          val |-> missing_field(
                     FieldAt(input, CHOOSE i \in first_missing(input, locals) : TRUE)).val]
    ELSE [ok |-> TRUE,
          val |-> [l \in Labels(input) |->
                     IF has_extras(input) /\ l = extra_field(input).label
                     THEN locals[l]
                     ELSE IF locals[l] # None
                          THEN locals[l][1]
                          ELSE missing_field(FieldOf(input, l)).val]]

RECURSIVE the_loop(_, _, _, _)
\* while let Some(key) = map.next_key()? { match key { ... } }
the_loop(input, w, p, locals) ==
    IF next_key(w, p) = None
    THEN [locals |-> locals, error |-> None]
    ELSE LET r == the_loop_body(input, locals, w.entries[p + 1][1], w.entries[p + 1][2])
         IN  IF r.error # None THEN r ELSE the_loop(input, w, p + 1, r.locals)

\* IndexedVisitor::visit_map as a function of the map it is given
visit_map(input, w) ==
    LET r == the_loop(input, w, 0, none_fields(input))
    IN  IF r.error # None
        THEN [ok |-> FALSE, val |-> r.error[1]]
        ELSE unwrap_expected_fields(input, r.locals)

---------------------------------------------------------------------------
(* Serialization: the code derive_serialize generates *)

\* what serde writes for the value of a field: None is CBOR null
ser_value(field, v) ==
    IF field.optional THEN (IF v = None THEN Null ELSE v[1]) ELSE v

\* mutant: the offset of the struct is forgotten
serialize_field_unshifted(input, i, self) ==
    LET field == FieldAt(input, i)
    IN  IF field.skip_serializing_if
        THEN IF self[field.label] = None
             THEN <<>>
             ELSE << <<i, ser_value(field, self[field.label])>> >>
        ELSE IF field.collect_extras
        THEN Iter(self[field.label])
        ELSE << <<i, ser_value(field, self[field.label])>> >>

\* mutant: only the negative keys of the extras are written
serialize_field_negative_only(input, i, self) ==
    LET field == FieldAt(input, i)
        index == i + input.attrs.offset
    IN  IF field.skip_serializing_if
        THEN IF self[field.label] = None
             THEN <<>>
             ELSE << <<index, ser_value(field, self[field.label])>> >>
        ELSE IF field.collect_extras
        THEN SelectSeq(Iter(self[field.label]), LAMBDA e : e[1] < 0)
        ELSE << <<index, ser_value(field, self[field.label])>> >>

\* the entries one field contributes, field.index + offset being its key
serialize_field(input, i, self) ==
    LET field == FieldAt(input, i)
        index == i + input.attrs.offset
    IN  IF field.skip_serializing_if
        THEN IF self[field.label] = None
             THEN <<>>
             ELSE << <<index, ser_value(field, self[field.label])>> >>
        ELSE IF field.collect_extras
        THEN Iter(self[field.label])
        ELSE << <<index, ser_value(field, self[field.label])>> >>

RECURSIVE serialize_from(_, _, _)
serialize_from(input, i, self) ==
    IF i >= Len(input.fields) THEN <<>>
    ELSE serialize_field(input, i, self) \o serialize_from(input, i + 1, self)

\* mutant: the key of a field is its place among the entries written, so
\* that the fields after a skipped one move down
serialize_fields_renumbered(input, self) ==
    LET es == serialize_from(input, 0, self)
        n == Cardinality({i \in match_fields(input) :
                 ~ (FieldAt(input, i).skip_serializing_if
                      /\ self[FieldAt(input, i).label] = None)})
    IN  [p \in 1 .. Len(es) |->
            IF p <= n THEN <<p - 1 + input.attrs.offset, es[p][2]>> ELSE es[p]]

\* the statements of serialize_fields, run in declaration order
serialize_fields(input, self) == serialize_from(input, 0, self)

\* mutant: a field counts whether or not it is skipped
count_serialized_field_unskipped(input, i, self) ==
    LET field == FieldAt(input, i)
    IN  IF field.collect_extras
        THEN Cardinality(DOMAIN self[field.label])
        ELSE 1

\* the summand one field contributes to the announced length
count_serialized_field(input, i, self) ==
    LET field == FieldAt(input, i)
    IN  IF field.skip_serializing_if
        THEN IF self[field.label] = None THEN 0 ELSE 1
        ELSE IF field.collect_extras
        THEN Cardinality(DOMAIN self[field.label])
        ELSE 1

RECURSIVE count_from(_, _, _)
count_from(input, i, self) ==
    IF i >= Len(input.fields) THEN 0
    ELSE count_serialized_field(input, i, self) + count_from(input, i + 1, self)

count_serialized_fields(input, self) == count_from(input, 0, self)

\* serializer.serialize_map(length), the entries, map.end()
derive_serialize(input, self) ==
    [hdr |-> IF input.attrs.emit_length
             THEN Some(count_serialized_fields(input, self))
             ELSE None,
     entries |-> serialize_fields(input, self)]

---------------------------------------------------------------------------
(* Inputs *)

\* the keys an input map draws from: the negative keys, the keys of the
\* fields and the first non-negative key that no field has
TopKey(input) ==
    IF has_extras(input)
    THEN Len(input.fields) - 1 + input.attrs.offset
    ELSE Len(input.fields) + input.attrs.offset
KeysOf(input) == NegKeys \cup (0 .. TopKey(input))

EntrySeqs(input) ==
    UNION {[1 .. n -> KeysOf(input) \X WireVal] : n \in 0 .. MaxLen}

\* well-formed CBOR maps: a definite header announces the number of entries
WireOf(es, definite) ==
    [hdr |-> IF definite THEN Some(Len(es)) ELSE None, entries |-> es]
Wires(input) == {WireOf(es, d) : es \in EntrySeqs(input), d \in BOOLEAN}

\* the keys a caller inserts into extra_values: the negative keys, the
\* non-negative key 0 and the first non-negative key that no field has
ExtraKeysOf(input) == NegKeys \cup {0, TopKey(input)}

\* the BTreeMaps a caller can build, of at most MaxExtras entries
ExtraMaps(input) ==
    UNION {[D -> CborVal] :
             D \in {D \in SUBSET ExtraKeysOf(input) : Cardinality(D) <= MaxExtras}}

\* the values of the type of a field
FieldValues(input, field) ==
    IF field.collect_extras THEN ExtraMaps(input)
    ELSE IF field.optional THEN {None} \cup {Some(v) : v \in Val}
    ELSE Val

RECURSIVE ValuesFrom(_, _)
ValuesFrom(input, i) ==
    IF i >= Len(input.fields) THEN {<<>>}
    ELSE {(FieldAt(input, i).label :> v) @@ r :
             v \in FieldValues(input, FieldAt(input, i)),
             r \in ValuesFrom(input, i + 1)}

\* the values of a record type
Values(input) == ValuesFrom(input, 0)

---------------------------------------------------------------------------
(* The state machine: bytes b are deserialized to the value x, or the     *)
(* caller builds x; x is serialized to the bytes b2; b2 is deserialized   *)
(* to the value x2.                                                        *)

VARIABLES
    input,      \* the record type
    b,          \* Option: the bytes handed to the first deserialization
    x,          \* Option: the value it returned, or the value the caller built
    b2,         \* Option: the bytes the serialization of x produced
    x2,         \* Option: the value the deserialization of b2 returned
    src,        \* which bytes visit_map reads: "b" or "b2"
    pos,        \* the number of entries visit_map has taken from the map
    locals,     \* the local variables of visit_map, by field label
    error,      \* Option: the error visit_map returned
    pc          \* "built", "loop", "failed", "decoded", "encoded"

codec_vars == <<input, b, x, b2, x2, src, pos, locals, error, pc>>

\* One field of a scalar type (a repr enum, a flag set, TransportFlags,
\* IpAddr) is deserialized from a CBOR data item and then serialized again
\* or read through its accessors.
VARIABLES
    sty,        \* the scalar type
    item,       \* the CBOR data item: an unsigned integer or a byte string
    sval,       \* Option: the value deserialized from the item
    sout,       \* Option: the integer written for sval, or what the accessors returned
    serror,     \* Option: the error the deserialization returned
    dom_pos,    \* pos of to_string_domain
    dom_res,    \* res of to_string_domain
    spc         \* "item", "value", "failed", "written", "read", "loop",
                \* "panicked", "idle"

scalar_vars == <<sty, item, sval, sout, serror, dom_pos, dom_res, spc>>

\* A File is deserialized from its three-element array and its blocks are
\* iterated, or the query responses of a Block are iterated.
VARIABLES
    bytes,      \* Option: the elements of the array handed to the deserialization
    file,       \* Option: the File it returned
    ferror,     \* Option: the error it returned
    self_block, \* Option: the Block iter_query_responses is called on
    params,     \* Option: the BlockParameters passed to iter_query_responses
    iter,       \* Option: the iterator (a BlockIterator or a QueryResponseIterator)
    yielded,    \* the items next() returned since the iterator was made
    before,     \* Option: the items of the previous, completed iteration
    folded,     \* Option: the items fold() handed to its closure
    hint,       \* Option: what size_hint() returned since the last call of next()
    fpc         \* "bytes", "failed", "file", "block", "iterating", "exhausted",
                \* "panicked", "folded", "fold_panicked", "idle"

file_vars ==
    <<bytes, file, ferror, self_block, params, iter, yielded, before, folded,
      hint, fpc>>

\* The debug CLI: main of c-dns-debug-print.
VARIABLES
    args,             \* the command-line arguments after the program name
    dump_serialized,  \* the flag of the same name
    arg,              \* the number of arguments the loop has taken
    buffer,           \* Option: the content fs::read returned for the current file
    printed,          \* what was printed, in order: <<stream, path or text>>
    written,          \* the files written by --dump-serialized
    exit,             \* Option: the exit code of the process
    cpc               \* "start", "loop", "decode", "exited", "idle"

cli_vars == <<args, dump_serialized, arg, buffer, printed, written, exit, cpc>>

\* Debug formatting: a record is rendered by {:?}.
VARIABLES
    fty,        \* the record type
    fself,      \* Option: the record that is formatted
    fout,       \* Option: what fmt wrote into the Formatter
    mpc         \* "value", "formatted", "idle"

fmt_vars == <<fty, fself, fout, mpc>>

vars == <<codec_vars, scalar_vars, file_vars, cli_vars, fmt_vars>>

\* the scalar codec is not running
ScalarIdle ==
    /\ sty = None /\ item = None /\ sval = None /\ sout = None
    /\ serror = None /\ dom_pos = 0 /\ dom_res = <<>> /\ spc = "idle"

\* no File or Block is being worked on
FileIdle ==
    /\ bytes = None /\ file = None /\ ferror = None /\ self_block = None
    /\ params = None /\ iter = None /\ yielded = <<>> /\ before = None
    /\ folded = None /\ hint = None
    /\ fpc = "idle"

\* the CLI is not running
CliIdle ==
    /\ args = <<>> /\ dump_serialized = FALSE /\ arg = 0 /\ buffer = None
    /\ printed = <<>> /\ written = {} /\ exit = None
    /\ cpc = "idle"

\* nothing is being formatted
FmtIdle == fty = None /\ fself = None /\ fout = None /\ mpc = "idle"

\* the record codec is not running
CodecIdle ==
    /\ input = None /\ b = None /\ x = None /\ b2 = None /\ x2 = None
    /\ src = "b" /\ pos = 0 /\ locals = <<>> /\ error = None /\ pc = "idle"

wire == IF src = "b" THEN b[1] ELSE b2[1]

InitBytes ==
    /\ input \in ByteTypes
    /\ b \in {Some(w) : w \in Wires(input)}
    /\ x = None
    /\ pc = "loop"

InitValue ==
    /\ input \in RecordTypes
    /\ b = None
    /\ x \in {Some(v) : v \in Values(input)}
    /\ pc = "built"

Init ==
    /\ ScalarIdle /\ FileIdle /\ CliIdle /\ FmtIdle
    /\ InitBytes \/ InitValue
    /\ b2 = None
    /\ x2 = None
    /\ src = "b"
    /\ pos = 0
    /\ locals = none_fields(input)
    /\ error = None

\* one iteration of the_loop: next_key returned a key
visit_map_entry ==
    /\ pc = "loop"
    /\ next_key(wire, pos) # None
    /\ LET r == the_loop_body(input, locals, wire.entries[pos + 1][1],
                              wire.entries[pos + 1][2])
       IN  /\ locals' = r.locals
           /\ error' = r.error
           /\ pc' = IF r.error # None THEN "failed" ELSE "loop"
    /\ pos' = pos + 1
    /\ UNCHANGED <<input, b, x, b2, x2, src>>
    /\ UNCHANGED <<scalar_vars, file_vars, cli_vars, fmt_vars>>

\* next_key returned None: the fields are unwrapped and the value returned
visit_map_end ==
    /\ pc = "loop"
    /\ next_key(wire, pos) = None
    /\ LET r == unwrap_expected_fields(input, locals)
       IN  /\ error' = IF r.ok THEN None ELSE Some(r.val)
           /\ pc' = IF r.ok THEN "decoded" ELSE "failed"
           /\ x' = IF r.ok /\ src = "b" THEN Some(r.val) ELSE x
           /\ x2' = IF r.ok /\ src = "b2" THEN Some(r.val) ELSE x2
    /\ UNCHANGED <<input, b, b2, src, pos, locals>>
    /\ UNCHANGED <<scalar_vars, file_vars, cli_vars, fmt_vars>>

\* serde_cbor::to_vec(&x)
serialize ==
    /\ \/ pc = "built"
       \/ pc = "decoded" /\ src = "b"
    /\ b2' = Some(derive_serialize(input, x[1]))
    /\ pc' = "encoded"
    /\ UNCHANGED <<input, b, x, x2, src, pos, locals, error>>
    /\ UNCHANGED <<scalar_vars, file_vars, cli_vars, fmt_vars>>

\* serde_cbor::from_slice(&b2)
deserialize_again ==
    /\ pc = "encoded"
    /\ src' = "b2"
    /\ pos' = 0
    /\ locals' = none_fields(input)
    /\ error' = None
    /\ pc' = "loop"
    /\ UNCHANGED <<input, b, x, b2, x2>>
    /\ UNCHANGED <<scalar_vars, file_vars, cli_vars, fmt_vars>>

Next ==
    \/ visit_map_entry
    \/ visit_map_end
    \/ serialize
    \/ deserialize_again

Spec == Init /\ [][Next]_vars

---------------------------------------------------------------------------
(* Vocabulary of the properties *)

\* serde_cbor::from_slice::<Value>: a map is a BTreeMap of its entries,
\* without their order and without the kind of header
RECURSIVE cbor_parse_from(_, _)
cbor_parse_from(es, n) ==
    IF n = 0 THEN EmptyMap
    ELSE Insert(cbor_parse_from(es, n - 1), es[n][1], es[n][2])
cbor_parse(w) == cbor_parse_from(w.entries, Len(w.entries))

KeyAt(w, p) == w.entries[p][1]
ValAt(w, p) == w.entries[p][2]
Positions(w) == 1 .. Len(w.entries)
DistinctKeys(w) == \A p, q \in Positions(w) : KeyAt(w, p) = KeyAt(w, q) => p = q

\* the keys that select a declared field, and the field a key selects
DeclaredKeys(ty) == {i + ty.attrs.offset : i \in match_fields(ty)}
FieldOfKey(ty, k) == FieldAt(ty, k - ty.attrs.offset)

\* the first deserialization, of the bytes b, has returned
FirstDone == b # None /\ src = "b" /\ pc \in {"decoded", "failed"}
FirstOk == b # None /\ src = "b" /\ pc = "decoded"
\* the deserialization of the bytes b2 has returned
SecondDone == src = "b2" /\ pc \in {"decoded", "failed"}

\* a deserialization, of b or of b2, has returned; the value it returned
Done == pc \in {"decoded", "failed"}
cur == IF src = "b" THEN x ELSE x2

\* the extra_values of a value (empty for a type without the field)
ExtrasOf(v) == IF has_extras(input) THEN v[extra_field(input).label] ELSE EmptyMap

---------------------------------------------------------------------------
(* C1: byte-structural round trip.  Whenever bytes b deserialize to a value  *)
(* and the value is serialized to b2, b and b2 parse to the same abstract   *)
(* CBOR map.                                                                *)
C1_ByteRoundTrip ==
    (b # None /\ src = "b" /\ pc = "encoded")
        => cbor_parse(b2[1]) = cbor_parse(b[1])

(* C2 as stated: every value a caller can build, whatever the keys of its   *)
(* extra_values, serializes to bytes that deserialize to the same value.    *)
C2_ValueRoundTripAnyExtras ==
    SecondDone => (pc = "decoded" /\ x2 = x)

(* C2, amended: every value whose extra_values keys are all negative        *)
(* serializes to bytes that deserialize, without error, to the same value.  *)
C2_ValueRoundTrip ==
    (SecondDone /\ \A k \in DOMAIN ExtrasOf(x[1]) : k < 0)
        => (pc = "decoded" /\ x2 = x)

C2_Witness ==
    /\ b = None
    /\ SecondDone
    /\ pc = "decoded"
    /\ x2 = x
    /\ DOMAIN ExtrasOf(x[1]) # {}
    /\ \A k \in DOMAIN ExtrasOf(x[1]) : k < 0
    /\ \E l \in Labels(input) : FieldOf(input, l).optional /\ x[1][l] = None

(* C3: extras preservation, for every record type.  Every entry with a     *)
(* negative key of an input map (here: one whose keys are pairwise         *)
(* distinct) is, after a successful deserialization, in the extra_values   *)
(* of the value with the same key and value, and is again an entry of the  *)
(* map the serialization of that value produces.                           *)
C3_ExtrasPreserved ==
    (b # None /\ src = "b" /\ pc \in {"decoded", "encoded"}
       /\ DistinctKeys(b[1])) =>
        \A p \in Positions(b[1]) :
            KeyAt(b[1], p) < 0 =>
                /\ has_extras(input)
                /\ KeyAt(b[1], p) \in DOMAIN ExtrasOf(x[1])
                /\ ExtrasOf(x[1])[KeyAt(b[1], p)] = ValAt(b[1], p)
                /\ pc = "encoded" =>
                      \E q \in Positions(b2[1]) : b2[1].entries[q] = b[1].entries[p]

(* C4: a non-negative key that selects no declared field makes the          *)
(* deserialization fail with the error kind unknown_field_index.            *)
C4_UnknownFieldIndex ==
    (pc = "failed" /\ pos >= 1 /\ KeyAt(wire, pos) >= 0
       /\ KeyAt(wire, pos) \notin DeclaredKeys(input))
        => error[1].kind = "unknown_field_index"

(* C5: as soon as the key of a declared field is read a second time the     *)
(* deserialization fails with duplicate_field and the label of that field,  *)
(* whatever the two values; so no run gets past a repeated declared key and *)
(* no value is returned for a map that repeats one.                         *)
C5_DuplicateField ==
    pc # "built" =>
        \A p, q \in 1 .. pos :
            (p < q /\ KeyAt(wire, p) = KeyAt(wire, q)
               /\ KeyAt(wire, p) \in DeclaredKeys(input))
                => /\ q = pos
                   /\ pc = "failed"
                   /\ error = Some(Err("duplicate_field",
                                       FieldOfKey(input, KeyAt(wire, q)).label))

C5_Witness ==
    /\ pc = "failed"
    /\ pos >= 2
    /\ \E p \in 1 .. (pos - 1) :
          /\ KeyAt(wire, p) = KeyAt(wire, pos)
          /\ KeyAt(wire, p) \in DeclaredKeys(input)
          /\ FieldOfKey(input, KeyAt(wire, p)).optional
          /\ ValAt(wire, p) = Null
          /\ ValAt(wire, pos) # Null
    /\ error[1].kind = "duplicate_field"

(* C6: when the map is used up, a field that received no value is left    *)
(* absent if it is optional and makes the deserialization fail with         *)
(* missing_field and its label if it is required (the first such field in   *)
(* declaration order is the one reported); a value is returned only if      *)
(* every required field received a value.                                   *)
Received(i) == \E p \in 1 .. pos : KeyAt(wire, p) = i + input.attrs.offset
C6_MissingField ==
    /\ pc = "decoded" =>
          \A i \in match_fields(input) :
              /\ ~ FieldAt(input, i).optional => Received(i)
              /\ (FieldAt(input, i).optional /\ ~ Received(i))
                    => cur[1][FieldAt(input, i).label] = None
    /\ (pc = "failed" /\ error[1].kind = "missing_field") =>
          /\ next_key(wire, pos) = None
          /\ \E i \in match_fields(input) :
                /\ ~ FieldAt(input, i).optional
                /\ ~ Received(i)
                /\ error[1].label = FieldAt(input, i).label
                /\ \A j \in match_fields(input) :
                      (j < i /\ ~ FieldAt(input, j).optional) => Received(j)

C6_Witness ==
    /\ pc = "failed"
    /\ error = Some(Err("missing_field", "block_parameters"))
    /\ pos = 2
    /\ ~ Received(2)

(* C7: for every optional field, a map without the key of the field and    *)
(* the same map with the key carrying CBOR null deserialize alike: both    *)
(* fail, or both return the same value, in which the field is absent.      *)
(* The null entry is put at every position of an input map, and before and *)
(* behind the entries of a map the serialization wrote.                    *)
InsertAt(es, p, e) == SubSeq(es, 1, p) \o <<e>> \o SubSeq(es, p + 1, Len(es))
C7_Positions ==
    IF src = "b" THEN 0 .. Len(wire.entries) ELSE {0, Len(wire.entries)}
C7_NullIsAbsent ==
    Done =>
        \A i \in match_fields(input) :
            (/\ FieldAt(input, i).optional
             /\ \A p \in Positions(wire) : KeyAt(wire, p) # i + input.attrs.offset)
            => \A p \in C7_Positions :
                  LET w2 == WireOf(InsertAt(wire.entries, p,
                                            <<i + input.attrs.offset, Null>>),
                                   wire.hdr # None)
                      r == visit_map(input, w2)
                  IN  IF pc = "decoded"
                      THEN /\ r = [ok |-> TRUE, val |-> cur[1]]
                           /\ cur[1][FieldAt(input, i).label] = None
                      ELSE ~ r.ok

C7_Witness ==
    /\ FirstOk
    /\ Len(b[1].entries) >= 2
    /\ \E p \in Positions(b[1]) :
          /\ KeyAt(b[1], p) \in DeclaredKeys(input)
          /\ FieldOfKey(input, KeyAt(b[1], p)).optional
          /\ ValAt(b[1], p) = Null
          /\ x[1][FieldOfKey(input, KeyAt(b[1], p)).label] = None
    /\ \E i \in match_fields(input) : FieldAt(input, i).optional /\ ~ Received(i)

(* C8: the order of the entries does not matter.  A map with pairwise     *)
(* distinct keys deserializes like the map of the same entries in          *)
(* ascending key order: both fail, or both return the same value.  All the *)
(* permutations of a set of entries share that ordered map, so all of them *)
(* deserialize alike.                                                      *)
C8_OrderIndependent ==
    (FirstDone /\ DistinctKeys(b[1])) =>
        LET ks == SortedKeys({KeyAt(b[1], p) : p \in Positions(b[1])})
            w2 == [hdr |-> b[1].hdr,
                   entries |-> [q \in 1 .. Len(ks) |->
                                  b[1].entries[CHOOSE p \in Positions(b[1]) :
                                                  KeyAt(b[1], p) = ks[q]]]]
            r == visit_map(input, w2)
        IN  IF pc = "decoded" THEN r = [ok |-> TRUE, val |-> x[1]]
            ELSE ~ r.ok

C8_Witness ==
    /\ FirstOk
    /\ DistinctKeys(b[1])
    /\ Len(b[1].entries) = 3
    /\ KeyAt(b[1], 1) = -1
    /\ KeyAt(b[1], 2) \in DeclaredKeys(input)
    /\ KeyAt(b[1], 3) = -2
    /\ DOMAIN ExtrasOf(x[1]) = {-2, -1}

(* C9: a map with a definite-length header and the map with the same       *)
(* entries under an indefinite-length header deserialize alike, for every  *)
(* record type: both fail, or both return the same value.                  *)
C9_LengthModes ==
    Done =>
        LET r == visit_map(input, WireOf(wire.entries, wire.hdr = None))
        IN  IF pc = "decoded" THEN r = [ok |-> TRUE, val |-> cur[1]]
            ELSE ~ r.ok

C9_Witness ==
    /\ FirstOk
    /\ b[1].hdr = None
    /\ ~ input.attrs.emit_length
    /\ Len(b[1].entries) = 3

(* C10 as stated: the keys of FilePreamble, Block and BlockPreamble are    *)
(* the 1-based numbers 1..4, 1..6 and 1..2 of their fields, and key 0 is   *)
(* not a key of these records.                                             *)
FilePreambleFields ==
    <<"major_format_version", "minor_format_version", "private_version",
      "block_parameters">>
BlockFields ==
    <<"block_preamble", "block_statistics", "block_tables", "query_responses",
      "address_event_counts", "malformed_messages">>
BlockPreambleFields == <<"earliest_time", "block_parameters_index">>
ListedFields ==
    IF input.ident = "FilePreamble" THEN FilePreambleFields
    ELSE IF input.ident = "Block" THEN BlockFields
    ELSE BlockPreambleFields

\* the n-th listed field is written and read under the key n - 1 + first,
\* and the key first + the number of listed fields is read as the key of
\* no field
KeysStartAt(first) ==
    input.ident \in {"FilePreamble", "Block", "BlockPreamble"} =>
        /\ pc = "encoded" =>
              \A n \in DOMAIN ListedFields :
                  LET field == FieldOf(input, ListedFields[n])
                  IN  ~ (field.optional /\ x[1][field.label] = None) =>
                         \E q \in Positions(b2[1]) :
                             b2[1].entries[q] =
                                <<n - 1 + first, ser_value(field, x[1][field.label])>>
        /\ pc = "decoded" =>
              \A p \in 1 .. pos :
                  /\ \A n \in DOMAIN ListedFields :
                        KeyAt(wire, p) = n - 1 + first =>
                            cur[1][ListedFields[n]] =
                               next_value(FieldOf(input, ListedFields[n]),
                                          ValAt(wire, p)).val
                  /\ KeyAt(wire, p) # first + Len(ListedFields)

C10_OneBasedKeys ==
    /\ KeysStartAt(1)
    /\ (input.ident \in {"FilePreamble", "Block", "BlockPreamble"} /\ pc = "decoded")
          => \A p \in 1 .. pos : KeyAt(wire, p) # 0

(* C10, amended: the keys of FilePreamble, Block and BlockPreamble are the *)
(* 0-based positions 0..3, 0..5 and 0..1 of their fields; the first key    *)
(* after them (4, 6, 2) is not a key of these records.                     *)
C10_ZeroBasedKeys == KeysStartAt(0)

C10_Witness ==
    /\ input.ident = "FilePreamble"
    /\ b = None
    /\ SecondDone
    /\ pc = "decoded"
    /\ x[1]["private_version"] # None
    /\ x2 = x
    /\ Len(b2[1].entries) = 4

---------------------------------------------------------------------------
(* Scalar field types of serialization.rs: the enums with Serialize_repr / *)
(* Deserialize_repr, the EnumSet flag sets, TransportFlags and IpAddr.     *)
(* An unsigned integer is a natural number; a byte string is the sequence  *)
(* of its octets.                                                          *)

\* Largest bit position set in an integer handed to a flag set.
MaxBit == 20
\* Largest number of one-bits of such an integer.
MaxOnes == 2
\* Largest length of a byte string handed to IpAddr.
MaxBytes == 5

\* u8::MAX
U8Max == 255

RECURSIVE Pow2(_)
Pow2(p) == IF p = 0 THEN 1 ELSE 2 * Pow2(p - 1)

\* bit p of n
Bit(n, p) == (n \div Pow2(p)) % 2

RECURSIVE BitsValue(_)
\* the integer whose one-bits are at the positions S
BitsValue(S) ==
    IF S = {} THEN 0
    ELSE LET p == CHOOSE q \in S : TRUE IN Pow2(p) + BitsValue(S \ {p})

\* a & m, for a below 2^(MaxBit + 1)
BitAnd(a, m) == BitsValue({p \in 0 .. MaxBit : Bit(a, p) = 1 /\ Bit(m, p) = 1})

\* a value of an unsigned integer type of the given width is read from n
Fits(n, width) == \A p \in 0 .. MaxBit : p >= width => Bit(n, p) = 0

Ok(v) == [ok |-> TRUE, val |-> v]
Fail(kind, label) == [ok |-> FALSE, val |-> Err(kind, label)]

(* #[derive(Serialize_repr, Deserialize_repr)] #[repr(u8)]: the variants in *)
(* declaration order; the discriminant of the variant at position p is     *)
(* p - 1 for every one of the three enums.                                  *)
QueryResponseType ==
    [kind |-> "repr", ident |-> "QueryResponseType",
     variants |-> <<"Stub", "Client", "Resolver", "Authoritative", "Forwarder", "Tool">>]

ResponseProcessingFlags ==
    [kind |-> "repr", ident |-> "ResponseProcessingFlags",
     variants |-> <<"FromCache">>]

AddressEventType ==
    [kind |-> "repr", ident |-> "AddressEventType",
     variants |-> <<"TcpReset", "IcmpTimeExceeded", "IcmpDestinationUnreachable",
                    "Icmpv6TimeExceeded", "Icmpv6DestinationUnreachable",
                    "Icmpv6PacketTooBig">>]

ReprTypes == {QueryResponseType, ResponseProcessingFlags, AddressEventType}

\* Variant as u8
discriminant(ty, v) == (CHOOSE p \in DOMAIN ty.variants : ty.variants[p] = v) - 1
discriminants(ty) == {p - 1 : p \in DOMAIN ty.variants}

\* mutant: an integer that is no discriminant is taken as the last variant
deserialize_repr_other(ty, n) ==
    IF ~ Fits(n, 8) THEN Fail("invalid_value", "u8")
    ELSE IF n \in discriminants(ty) THEN Ok(ty.variants[n + 1])
    ELSE Ok(ty.variants[Len(ty.variants)])

\* Deserialize_repr: the integer is read as the repr type u8 and matched
\* against the discriminants; both failures are "invalid value" errors
\* (of the integer type, of the enum)
deserialize_repr(ty, n) ==
    IF ~ Fits(n, 8) THEN Fail("invalid_value", "u8")
    ELSE IF n \in discriminants(ty) THEN Ok(ty.variants[n + 1])
    ELSE Fail("invalid_value", ty.ident)

\* Serialize_repr: the discriminant is written
serialize_repr(ty, v) == discriminant(ty, v)

(* #[derive(EnumSetType)]: the bit of every variant.  An EnumSet is stored *)
(* as the integer that has the bits of its members set.                    *)
FlagType(ident, last) == [kind |-> "enumset", ident |-> ident, bits |-> 0 .. last]

StorageFlags == FlagType("StorageFlags", 2)
QueryResponseHints == FlagType("QueryResponseHints", 17)
QueryResponseSignatureHints == FlagType("QueryResponseSignatureHints", 16)
RRHint == FlagType("RRHint", 1)
OtherDataHints == FlagType("OtherDataHints", 1)
QueryResponseFlags == FlagType("QueryResponseFlags", 5)
DNSFlags == FlagType("DNSFlags", 14)

FlagTypes ==
    {StorageFlags, QueryResponseHints, QueryResponseSignatureHints, RRHint,
     OtherDataHints, QueryResponseFlags, DNSFlags}

\* the mask of the declared variants
ALL_BITS(ty) == BitsValue(ty.bits)

\* the width of the integer type an EnumSet is serialized as: the smallest
\* of u8, u16, u32, u64, u128 that has a bit for every variant
serialize_repr_width(ty) ==
    LET n == Cardinality(ty.bits)
    IN  IF n <= 8 THEN 8 ELSE IF n <= 16 THEN 16 ELSE IF n <= 32 THEN 32
        ELSE IF n <= 64 THEN 64 ELSE 128

\* mutant: the integer is kept as it was read
enumset_deserialize_keep(ty, n) ==
    IF ~ Fits(n, serialize_repr_width(ty))
    THEN Fail("invalid_value", "integer width")
    ELSE Ok(n)

\* EnumSet<T>: Deserialize.  The integer is read at the serialization
\* width; bits of no variant are dropped (no serialize_deny_unknown).
enumset_deserialize(ty, n) ==
    IF ~ Fits(n, serialize_repr_width(ty))
    THEN Fail("invalid_value", "integer width")
    ELSE Ok(BitAnd(n, ALL_BITS(ty)))

\* EnumSet<T>: Serialize.  The stored integer is written.
enumset_serialize(ty, v) == v

(* TransportFlags(u8) and crate::Transport *)
TransportFlags == [kind |-> "TransportFlags", ident |-> "TransportFlags"]

\* <u8 as Deserialize>
deserialize_u8(n) == IF Fits(n, 8) THEN Ok(n) ELSE Fail("invalid_value", "u8")

is_ipv4(v) == BitAnd(v, 1) = 0
is_ipv6(v) == ~ is_ipv4(v)

transport_protocol(v) ==
    LET transport == BitAnd(v, 30) \div Pow2(3)
    IN  CASE transport = 0 -> "Udp"
          [] transport = 1 -> "Tcp"
          [] transport = 2 -> "Tls"
          [] transport = 3 -> "Dtls"
          [] transport = 4 -> "Https"
          [] transport = 15 -> "NonStandard"
          [] OTHER -> "Reserved"

has_trailing_data(v) == BitAnd(v, 32) # 0

(* IpAddr(ByteBuf) *)
IpAddr == [kind |-> "IpAddr", ident |-> "IpAddr"]

\* <ByteBuf as Deserialize> of a byte string: the bytes are copied
deserialize_byte_buf(bs) == Ok([p \in 1 .. Len(bs) |-> bs[p]])

\* mutant: only a full address of four bytes converts
as_ipv4_full(bs) ==
    IF Len(bs) = 4 THEN Ok(<<bs[1], bs[2], bs[3], bs[4]>>)
    ELSE IF Len(bs) = 0 THEN Fail("eyre", "No bytes to convert into Ipv4Addr")
    ELSE Fail("eyre", "Too many bytes to convert into Ipv4Addr")

\* IpAddr::as_ipv4: Ipv4Addr::new of the octets
as_ipv4(bs) ==
    CASE Len(bs) = 0 -> Fail("eyre", "No bytes to convert into Ipv4Addr")
      [] Len(bs) = 1 -> Ok(<<bs[1], 0, 0, 0>>)
      [] Len(bs) = 2 -> Ok(<<bs[1], bs[2], 0, 0>>)
      [] Len(bs) = 3 -> Ok(<<bs[1], bs[2], bs[3], 0>>)
      [] Len(bs) = 4 -> Ok(<<bs[1], bs[2], bs[3], bs[4]>>)
      [] OTHER -> Fail("eyre", "Too many bytes to convert into Ipv4Addr")

(* Inputs *)

\* the unsigned integers with at most MaxOnes one-bits, all at or below
\* position MaxBit
FlagInts ==
    {BitsValue(S) : S \in {S \in SUBSET (0 .. MaxBit) : Cardinality(S) <= MaxOnes}}

\* the unsigned integers up to the first that is no u8
ByteInts == 0 .. (U8Max + 1)

Octets == {0, 10, U8Max}
ByteStrings == UNION {[1 .. n -> Octets] : n \in 0 .. MaxBytes}

(* The state machine *)

InitScalar ==
    /\ \/ sty \in {Some(ty) : ty \in ReprTypes \cup {TransportFlags}}
          /\ item \in {Some(n) : n \in ByteInts}
       \/ sty \in {Some(ty) : ty \in FlagTypes}
          /\ item \in {Some(n) : n \in FlagInts}
       \/ sty = Some(IpAddr)
          /\ item \in {Some(bs) : bs \in ByteStrings}
    /\ sval = None
    /\ sout = None
    /\ serror = None
    /\ dom_pos = 0
    /\ dom_res = <<>>
    /\ spc = "item"
    /\ CodecIdle /\ FileIdle /\ CliIdle /\ FmtIdle

\* what a deserialization leaves behind
Deserialized(r) ==
    /\ sval' = IF r.ok THEN Some(r.val) ELSE None
    /\ serror' = IF r.ok THEN None ELSE Some(r.val)
    /\ spc' = IF r.ok THEN "value" ELSE "failed"
    /\ UNCHANGED <<sty, item, sout, dom_pos, dom_res>>
    /\ UNCHANGED <<codec_vars, file_vars, cli_vars, fmt_vars>>

Produced(v, at) ==
    /\ sout' = Some(v)
    /\ spc' = at
    /\ UNCHANGED <<sty, item, sval, serror, dom_pos, dom_res>>
    /\ UNCHANGED <<codec_vars, file_vars, cli_vars, fmt_vars>>

DecodeRepr ==
    /\ spc = "item" /\ sty[1].kind = "repr"
    /\ Deserialized(deserialize_repr(sty[1], item[1]))

EncodeRepr ==
    /\ spc = "value" /\ sty[1].kind = "repr"
    /\ Produced(serialize_repr(sty[1], sval[1]), "written")

DecodeFlags ==
    /\ spc = "item" /\ sty[1].kind = "enumset"
    /\ Deserialized(enumset_deserialize(sty[1], item[1]))

EncodeFlags ==
    /\ spc = "value" /\ sty[1].kind = "enumset"
    /\ Produced(enumset_serialize(sty[1], sval[1]), "written")

DecodeTransportFlags ==
    /\ spc = "item" /\ sty[1].kind = "TransportFlags"
    /\ Deserialized(deserialize_u8(item[1]))

\* the four accessors of TransportFlags are called on the value
ReadTransportFlags ==
    /\ spc = "value" /\ sty[1].kind = "TransportFlags"
    /\ Produced([is_ipv4 |-> is_ipv4(sval[1]),
                 is_ipv6 |-> is_ipv6(sval[1]),
                 transport_protocol |-> transport_protocol(sval[1]),
                 has_trailing_data |-> has_trailing_data(sval[1])], "read")

DecodeIpAddr ==
    /\ spc = "item" /\ sty[1].kind = "IpAddr"
    /\ Deserialized(deserialize_byte_buf(item[1]))

CallAsIpv4 ==
    /\ spc = "value" /\ sty[1].kind = "IpAddr"
    /\ Produced(as_ipv4(sval[1]), "read")

NextScalar ==
    \/ DecodeRepr
    \/ EncodeRepr
    \/ DecodeFlags
    \/ EncodeFlags
    \/ DecodeTransportFlags
    \/ ReadTransportFlags
    \/ DecodeIpAddr
    \/ CallAsIpv4

SpecScalar == InitScalar /\ [][NextScalar]_vars

---------------------------------------------------------------------------
(* C11: a QueryResponseType, ResponseProcessingFlags or AddressEventType   *)
(* field is deserialized from an unsigned integer.  If the integer is one  *)
(* of the declared values (0..5, only 0, 0..5) the variant stored is the   *)
(* one that is written back as that integer; otherwise the                 *)
(* deserialization fails with the error of an invalid value (the spec's    *)
(* invalid_variant) and nothing is stored.                                 *)
C11_Declared ==
    IF sty[1].ident = "ResponseProcessingFlags" THEN {0} ELSE 0 .. 5

C12_FlagsRoundTrip ==
    (spc = "written" /\ sty[1].kind = "enumset") => sout = item

(* C15: the accessors of TransportFlags follow the packed layout for every *)
(* byte v: bit 0 is the IP version, bits 1..4 the transport number, bit 5  *)
(* the trailing-data flag.                                                  *)
C15_Transport(t) ==
    CASE t = 0 -> "Udp"
      [] t = 1 -> "Tcp"
      [] t = 2 -> "Tls"
      [] t = 3 -> "Dtls"
      [] t = 4 -> "Https"
      [] t = 15 -> "NonStandard"
      [] OTHER -> "Reserved"

C15_TransportFlagsLayout ==
    (spc = "read" /\ sty[1].kind = "TransportFlags") =>
        LET v == item[1]
        IN  /\ sout[1].is_ipv4 = (v % 2 = 0)
            /\ sout[1].is_ipv6 = ~ sout[1].is_ipv4
            /\ sout[1].transport_protocol = C15_Transport((v \div 2) % 16)
            /\ sout[1].has_trailing_data = ((v \div 32) % 2 = 1)

(* C16: an IpAddr deserializes from a byte string of any length and keeps  *)
(* the bytes; as_ipv4 returns, for 1 to 4 stored bytes, the address whose  *)
(* leading octets are the bytes and whose other octets are 0, and an error *)
(* for no byte and for more than 4 bytes.                                  *)
C16_IpAddrAsIpv4 ==
    (spc # "idle" /\ sty[1].kind = "IpAddr" /\ spc # "item") =>
        /\ spc # "failed"
        /\ sval = item
        /\ spc = "read" =>
              LET n == Len(item[1])
              IN  /\ sout[1].ok = (1 <= n /\ n <= 4)
                  /\ sout[1].ok =>
                        /\ Len(sout[1].val) = 4
                        /\ \A p \in 1 .. 4 :
                              sout[1].val[p] = IF p <= n THEN item[1][p] ELSE 0

C16_Witness ==
    /\ spc = "read"
    /\ sty = Some(IpAddr)
    /\ item = Some(<<10, 0, 0>>)
    /\ sout = Some(Ok(<<10, 0, 0, 0>>))

---------------------------------------------------------------------------
(* File, its deserialization from the three-element array, and the         *)
(* iterators of iterators.rs.  An element of the array is given by the     *)
(* outcome of its own deserialization: Ok(value) or Fail(error).           *)
(* BlockParameters, BlockTables and QueryResponse values are atoms: the    *)
(* iterators hand them on without looking into them.  A Block carries the  *)
(* fields the iterators read.                                              *)

\* Largest number of entries of file_preamble.block_parameters.
MaxParams == 2
\* Largest number of blocks of a file.
MaxBlocks == 2
\* Largest number of query responses of a block.
MaxQr == 2

BlockParametersValues == <<"block_parameters_0", "block_parameters_1",
                           "block_parameters_2", "block_parameters_3">>
QueryResponseValues == {"query_response_a", "query_response_b"}
BlockTablesValue == "block_tables"
\* Timestamp(seconds, ticks)
TimestampValue == <<1, 0>>

\* the first n BlockParameters
ParamsOfLen(n) == [k \in 1 .. n |-> BlockParametersValues[k]]

FilePreambleValues ==
    {[major_format_version |-> major, minor_format_version |-> 0,
      private_version |-> None, block_parameters |-> ParamsOfLen(n),
      extra_values |-> EmptyMap] :
        major \in {1, 2}, n \in 0 .. MaxParams}

BlockValue(earliest_time, index, tables, qrs) ==
    [block_preamble |-> [earliest_time |-> earliest_time,
                         block_parameters_index |-> index],
     block_tables |-> tables,
     query_responses |-> qrs]

\* the blocks of a file: the index runs up to the first one that is out of
\* range for every block_parameters list
FileBlockValues ==
    {BlockValue(t, i, None, None) :
        t \in {None, Some(TimestampValue)},
        i \in {None} \cup {Some(k) : k \in 0 .. MaxParams}}

\* the blocks iter_query_responses is called on
QrSeqs == UNION {[1 .. n -> QueryResponseValues] : n \in 0 .. MaxQr}
BlockValues ==
    {BlockValue(t, None, tables, qrs) :
        t \in {None, Some(TimestampValue)},
        tables \in {None, Some(BlockTablesValue)},
        qrs \in {None} \cup {Some(q) : q \in QrSeqs}}

\* the outcomes of the deserialization of the three elements
FileTypeIdElements ==
    {Ok("C-DNS"), Ok("C-DNT"), Fail("invalid_type", "file_type_id")}
FilePreambleElements ==
    {Ok(v) : v \in FilePreambleValues}
        \cup {Fail("missing_field", "major_format_version")}
FileBlocksElements ==
    {Ok(bs) : bs \in UNION {[1 .. n -> FileBlockValues] : n \in 0 .. MaxBlocks}}
        \cup {Fail("missing_field", "block_preamble")}

\* arrays of three elements, of the first two of them, and of four
FileArrays ==
    LET three == {<<a, c, d>> : a \in FileTypeIdElements,
                                c \in FilePreambleElements,
                                d \in FileBlocksElements}
    IN  three
          \cup {SubSeq(t, 1, 2) : t \in three}
          \cup {Append(t, Ok("C-DNS")) : t \in three}

\* Deserialize_tuple for File: the three elements are taken in order, a
\* missing one is an invalid_length error, the error of an element is
\* returned as it is; an array with more elements is refused by serde_cbor
\* once the visitor has returned.  Nothing else is checked.
deserialize_tuple(elements) ==
    LET missing == {i \in 1 .. 3 : i > Len(elements)}
        failed == {i \in 1 .. 3 : i <= Len(elements) /\ ~ elements[i].ok}
        stop == missing \cup failed
    IN  IF stop # {}
        THEN LET i == CHOOSE j \in stop : \A k \in stop : j <= k
             IN  IF i \in missing THEN Fail("invalid_length", "File")
                 ELSE elements[i]
        ELSE IF Len(elements) > 3 THEN Fail("trailing_data", "File")
        ELSE Ok([file_type_id |-> elements[1].val,
                 file_preamble |-> elements[2].val,
                 file_blocks |-> elements[3].val])

\* Option::unwrap_or
unwrap_or(o, d) == IF o = None THEN d ELSE o[1]

\* File::iter_blocks
iter_blocks(f) ==
    [kind |-> "BlockIterator",
     block_parameters |-> f.file_preamble.block_parameters,
     blocks |-> f.file_blocks]

\* mutant: every block is paired with the first BlockParameters
BlockIterator_next_first(it) ==
    IF it.blocks = <<>>
    THEN [item |-> None, iter |-> it, panic |-> FALSE]
    ELSE LET block == Head(it.blocks)
             rest == [it EXCEPT !.blocks = Tail(it.blocks)]
         IN  IF 0 >= Len(it.block_parameters)
             THEN [item |-> None, iter |-> rest, panic |-> TRUE]
             ELSE [item |-> Some(<<block, it.block_parameters[1]>>),
                   iter |-> rest, panic |-> FALSE]

\* BlockIterator::next: the item, the iterator afterwards and whether the
\* slice index panicked
BlockIterator_next(it) ==
    IF it.blocks = <<>>
    THEN [item |-> None, iter |-> it, panic |-> FALSE]
    ELSE LET block == Head(it.blocks)
             rest == [it EXCEPT !.blocks = Tail(it.blocks)]
             index == unwrap_or(block.block_preamble.block_parameters_index, 0)
         IN  IF index >= Len(it.block_parameters)
             THEN [item |-> None, iter |-> rest, panic |-> TRUE]
             ELSE [item |-> Some(<<block, it.block_parameters[index + 1]>>),
                   iter |-> rest, panic |-> FALSE]

\* BlockIterator::size_hint: that of the slice iterator, which is exact
BlockIterator_size_hint(it) == <<Len(it.blocks), Some(Len(it.blocks))>>

\* a closure that collects the items it is given
Collect(accu, it_item) == Append(accu, it_item)

RECURSIVE slice_fold_blocks(_, _, _)
\* self.blocks.fold(init, |accu, block| f(accu, (block, &block_parameters[..])))
\* with f = Collect: the accumulator, and whether the slice index panicked
slice_fold_blocks(block_parameters, blocks, accu) ==
    IF blocks = <<>>
    THEN [accu |-> accu, panic |-> FALSE]
    ELSE LET block == Head(blocks)
             index == unwrap_or(block.block_preamble.block_parameters_index, 0)
         IN  IF index >= Len(block_parameters)
             THEN [accu |-> accu, panic |-> TRUE]
             ELSE slice_fold_blocks(
                      block_parameters, Tail(blocks),
                      Collect(accu, <<block, block_parameters[index + 1]>>))

\* mutant: fold starts behind the first block
BlockIterator_fold_rest(it, init) ==
    slice_fold_blocks(it.block_parameters,
                      IF it.blocks = <<>> THEN <<>> ELSE Tail(it.blocks), init)

\* BlockIterator::fold
BlockIterator_fold(it, init) ==
    slice_fold_blocks(it.block_parameters, it.blocks, init)

\* mutant: the absence of block_tables is only noticed when there is a
\* query response to pair it with
iter_query_responses_lazy(blk, block_parameters) ==
    IF blk.block_tables = None /\ unwrap_or(blk.query_responses, <<>>) # <<>>
    THEN None
    ELSE Some([kind |-> "QueryResponseIterator",
               earliest_time |-> blk.block_preamble.earliest_time,
               block_parameters |-> block_parameters,
               block_tables |-> unwrap_or(blk.block_tables, "block_tables"),
               query_responses |-> unwrap_or(blk.query_responses, <<>>)])

\* Block::iter_query_responses: None when expect() panics
iter_query_responses(blk, block_parameters) ==
    IF blk.block_tables = None
    THEN None
    ELSE Some([kind |-> "QueryResponseIterator",
               earliest_time |-> blk.block_preamble.earliest_time,
               block_parameters |-> block_parameters,
               block_tables |-> blk.block_tables[1],
               query_responses |-> unwrap_or(blk.query_responses, <<>>)])

\* mutant: the iterator starts behind the first query response
QueryResponseIterator_next_skip(it) ==
    IF it.query_responses = <<>> \/ Tail(it.query_responses) = <<>>
    THEN [item |-> None, iter |-> [it EXCEPT !.query_responses = <<>>],
          panic |-> FALSE]
    ELSE [item |-> Some(<<it.query_responses[2], it.earliest_time,
                         it.block_parameters, it.block_tables>>),
          iter |-> [it EXCEPT !.query_responses = Tail(Tail(it.query_responses))],
          panic |-> FALSE]

\* QueryResponseIterator::next
QueryResponseIterator_next(it) ==
    IF it.query_responses = <<>>
    THEN [item |-> None, iter |-> it, panic |-> FALSE]
    ELSE [item |-> Some(<<Head(it.query_responses), it.earliest_time,
                         it.block_parameters, it.block_tables>>),
          iter |-> [it EXCEPT !.query_responses = Tail(it.query_responses)],
          panic |-> FALSE]

\* QueryResponseIterator::size_hint
QueryResponseIterator_size_hint(it) ==
    <<Len(it.query_responses), Some(Len(it.query_responses))>>

RECURSIVE slice_fold_query_responses(_, _, _)
\* self.query_responses.fold(init, |accu, query_response| f(accu, (..)))
slice_fold_query_responses(it, query_responses, accu) ==
    IF query_responses = <<>>
    THEN [accu |-> accu, panic |-> FALSE]
    ELSE slice_fold_query_responses(
             it, Tail(query_responses),
             Collect(accu, <<Head(query_responses), it.earliest_time,
                             it.block_parameters, it.block_tables>>))

\* QueryResponseIterator::fold
QueryResponseIterator_fold(it, init) ==
    slice_fold_query_responses(it, it.query_responses, init)

(* The state machine *)

InitFile ==
    /\ bytes \in {Some(a) : a \in FileArrays}
    /\ self_block = None
    /\ params = None
    /\ fpc = "bytes"

InitBlock ==
    /\ bytes = None
    /\ self_block \in {Some(v) : v \in BlockValues}
    /\ params \in {Some(BlockParametersValues[k]) : k \in 1 .. 2}
    /\ fpc = "block"

InitIter ==
    /\ InitFile \/ InitBlock
    /\ file = None
    /\ ferror = None
    /\ iter = None
    /\ yielded = <<>>
    /\ before = None
    /\ folded = None
    /\ hint = None
    /\ CodecIdle /\ ScalarIdle /\ CliIdle /\ FmtIdle

\* serde_cbor::from_slice::<File>
DeserializeFile ==
    /\ fpc = "bytes"
    /\ LET r == deserialize_tuple(bytes[1])
       IN  /\ file' = IF r.ok THEN Some(r.val) ELSE None
           /\ ferror' = IF r.ok THEN None ELSE Some(r.val)
           /\ fpc' = IF r.ok THEN "file" ELSE "failed"
    /\ UNCHANGED <<bytes, self_block, params, iter, yielded, before, folded, hint>>
    /\ UNCHANGED <<codec_vars, scalar_vars, cli_vars, fmt_vars>>

\* file.iter_blocks(), on the decoded file and once more after the first
\* iterator is used up
CallIterBlocks ==
    /\ \/ fpc = "file"
       \/ fpc = "exhausted" /\ file # None /\ before = None
    /\ iter' = Some(iter_blocks(file[1]))
    /\ before' = IF fpc = "exhausted" THEN Some(yielded) ELSE None
    /\ yielded' = <<>>
    /\ fpc' = "iterating"
    /\ hint' = None
    /\ UNCHANGED <<bytes, file, ferror, self_block, params, folded>>
    /\ UNCHANGED <<codec_vars, scalar_vars, cli_vars, fmt_vars>>

\* block.iter_query_responses(params), and once more after the first
\* iterator is used up
CallIterQueryResponses ==
    /\ \/ fpc = "block"
       \/ fpc = "exhausted" /\ self_block # None /\ before = None
    /\ LET it == iter_query_responses(self_block[1], params[1])
       IN  /\ iter' = it
           /\ fpc' = IF it = None THEN "panicked" ELSE "iterating"
    /\ before' = IF fpc = "exhausted" THEN Some(yielded) ELSE None
    /\ yielded' = <<>>
    /\ hint' = None
    /\ UNCHANGED <<bytes, file, ferror, self_block, params, folded>>
    /\ UNCHANGED <<codec_vars, scalar_vars, cli_vars, fmt_vars>>

\* what a call of next() leaves behind
Stepped(r) ==
    /\ iter' = Some(r.iter)
    /\ yielded' = IF r.item = None THEN yielded ELSE Append(yielded, r.item[1])
    /\ fpc' = IF r.panic THEN "panicked"
              ELSE IF r.item = None THEN "exhausted" ELSE "iterating"
    /\ hint' = None
    /\ UNCHANGED <<bytes, file, ferror, self_block, params, before, folded>>
    /\ UNCHANGED <<codec_vars, scalar_vars, cli_vars, fmt_vars>>

\* next() on the BlockIterator, also after it returned None
NextBlock ==
    /\ fpc \in {"iterating", "exhausted"}
    /\ iter[1].kind = "BlockIterator"
    /\ Stepped(BlockIterator_next(iter[1]))

\* next() on the QueryResponseIterator, also after it returned None
NextQueryResponse ==
    /\ fpc \in {"iterating", "exhausted"}
    /\ iter[1].kind = "QueryResponseIterator"
    /\ Stepped(QueryResponseIterator_next(iter[1]))

\* what a call of size_hint() leaves behind
Hinted(h) ==
    /\ hint' = Some(h)
    /\ UNCHANGED <<bytes, file, ferror, self_block, params, iter, yielded,
                   before, folded, fpc>>
    /\ UNCHANGED <<codec_vars, scalar_vars, cli_vars, fmt_vars>>

\* size_hint() on the BlockIterator
SizeHintBlock ==
    /\ fpc \in {"iterating", "exhausted"}
    /\ iter[1].kind = "BlockIterator"
    /\ hint = None
    /\ Hinted(BlockIterator_size_hint(iter[1]))

\* size_hint() on the QueryResponseIterator
SizeHintQueryResponse ==
    /\ fpc \in {"iterating", "exhausted"}
    /\ iter[1].kind = "QueryResponseIterator"
    /\ hint = None
    /\ Hinted(QueryResponseIterator_size_hint(iter[1]))

\* what a call of fold(<<>>, Collect) leaves behind: the iterator is moved
\* into fold
Folded(r) ==
    /\ folded' = IF r.panic THEN None ELSE Some(r.accu)
    /\ fpc' = IF r.panic THEN "fold_panicked" ELSE "folded"
    /\ iter' = None
    /\ hint' = None
    /\ UNCHANGED <<bytes, file, ferror, self_block, params, yielded, before>>
    /\ UNCHANGED <<codec_vars, scalar_vars, cli_vars, fmt_vars>>

\* fold() on the rest of the BlockIterator
FoldBlock ==
    /\ fpc \in {"iterating", "exhausted"}
    /\ iter[1].kind = "BlockIterator"
    /\ Folded(BlockIterator_fold(iter[1], <<>>))

\* fold() on the rest of the QueryResponseIterator
FoldQueryResponse ==
    /\ fpc \in {"iterating", "exhausted"}
    /\ iter[1].kind = "QueryResponseIterator"
    /\ Folded(QueryResponseIterator_fold(iter[1], <<>>))

NextIter ==
    \/ DeserializeFile
    \/ CallIterBlocks
    \/ CallIterQueryResponses
    \/ NextBlock
    \/ NextQueryResponse
    \/ SizeHintBlock
    \/ SizeHintQueryResponse
    \/ FoldBlock
    \/ FoldQueryResponse

SpecIter == InitIter /\ [][NextIter]_vars

---------------------------------------------------------------------------
(* Vocabulary of the iterator properties *)

\* the blocks and the block parameters of the decoded file
FileBlocks == file[1].file_blocks
FileParams == file[1].file_preamble.block_parameters
\* block_preamble.block_parameters_index of the k-th block, 0 when absent
IndexOfBlock(k) ==
    IF FileBlocks[k].block_preamble.block_parameters_index = None THEN 0
    ELSE FileBlocks[k].block_preamble.block_parameters_index[1]

(* C13: iter_blocks yields the blocks of the file in file order, one item  *)
(* per block, the item of the k-th block being the block and the           *)
(* block_parameters entry its index (0 when absent) selects; next()        *)
(* returns None only after the last block, and an iteration ends early     *)
(* only by the panic of an index that is out of range; a second            *)
(* iter_blocks yields the same sequence.                                   *)
C13_IterBlocks ==
    (file # None /\ fpc \in {"iterating", "exhausted", "panicked"}) =>
        /\ Len(yielded) <= Len(FileBlocks)
        /\ \A k \in 1 .. Len(yielded) :
              /\ IndexOfBlock(k) < Len(FileParams)
              /\ yielded[k] = <<FileBlocks[k], FileParams[IndexOfBlock(k) + 1]>>
        /\ fpc = "exhausted" => Len(yielded) = Len(FileBlocks)
        /\ fpc = "panicked" =>
              /\ Len(yielded) < Len(FileBlocks)
              /\ IndexOfBlock(Len(yielded) + 1) >= Len(FileParams)
        /\ (fpc = "exhausted" /\ before # None) => yielded = before[1]

C13_Witness ==
    /\ file # None
    /\ fpc = "exhausted"
    /\ before = Some(yielded)
    /\ Len(yielded) = 2
    /\ yielded[1][2] = "block_parameters_1"
    /\ yielded[2][2] = "block_parameters_0"
    /\ yielded[2][1].block_preamble.block_parameters_index = None

(* C14: on a Block whose block_tables is present, iter_query_responses      *)
(* yields the entries of query_responses in order, one item per entry,     *)
(* each with the block's earliest_time, the params passed in and the       *)
(* block's block_tables; it yields nothing when query_responses is absent. *)
C14_IterQueryResponses ==
    (self_block # None /\ fpc # "block" /\ self_block[1].block_tables # None) =>
        LET blk == self_block[1]
            qrs == IF blk.query_responses = None THEN <<>>
                   ELSE blk.query_responses[1]
        IN  /\ fpc \in {"iterating", "exhausted", "folded"}
            /\ Len(yielded) <= Len(qrs)
            /\ \A k \in 1 .. Len(yielded) :
                  yielded[k] = <<qrs[k], blk.block_preamble.earliest_time,
                                 params[1], blk.block_tables[1]>>
            /\ fpc = "exhausted" => Len(yielded) = Len(qrs)

C14_Witness ==
    /\ self_block # None
    /\ fpc = "exhausted"
    /\ Len(yielded) = 2
    /\ yielded[1][1] = "query_response_b"
    /\ yielded[2][1] = "query_response_a"
    /\ yielded[1][2] = Some(TimestampValue)
    /\ yielded[2][3] = "block_parameters_1"

(* C17: a File is returned only if file_type_id is the text "C-DNS" and    *)
(* file_preamble.major_format_version is 1.                                *)
C17_HeaderValidated ==
    file # None =>
        /\ file[1].file_type_id = "C-DNS"
        /\ file[1].file_preamble.major_format_version = 1

(* C18: every File returned has at least one block_parameters entry and    *)
(* the block_parameters_index of every block (0 when absent) is below the  *)
(* number of entries, so that iter_blocks never indexes out of range.      *)
C18_BlockParametersInvariant ==
    file # None =>
        /\ Len(FileParams) >= 1
        /\ \A k \in 1 .. Len(FileBlocks) : IndexOfBlock(k) < Len(FileParams)
        /\ fpc # "panicked"

\* next() on an iterator of either kind
C28_Next(it) ==
    IF it.kind = "BlockIterator" THEN BlockIterator_next(it)
    ELSE QueryResponseIterator_next(it)

RECURSIVE C28_Drain(_)
\* the items repeated calls of next() return until None, and whether a
\* call panics before
C28_Drain(it) ==
    LET r == C28_Next(it)
    IN  IF r.panic THEN [accu |-> <<>>, panic |-> TRUE]
        ELSE IF r.item = None THEN [accu |-> <<>>, panic |-> FALSE]
        ELSE LET d == C28_Drain(r.iter)
             IN  [accu |-> <<r.item[1]>> \o d.accu, panic |-> d.panic]

\* the iterator as the call that made it returned it
C28_Fresh ==
    IF file # None THEN iter_blocks(file[1])
    ELSE iter_query_responses(self_block[1], params[1])[1]

\* the number of elements of the slice that next() has not taken yet
C28_Left ==
    IF file # None THEN Len(FileBlocks) - Len(yielded)
    ELSE Len(unwrap_or(self_block[1].query_responses, <<>>)) - Len(yielded)

(* C28: at every point of an iteration, by a BlockIterator or by a         *)
(* QueryResponseIterator, fold hands its closure the items that repeated   *)
(* calls of next() would return, in the same order (and panics where they  *)
(* would); size_hint() is (n, Some(n)), n being the number of items not    *)
(* yet returned; and once n is 0, next() returns None and leaves the       *)
(* iterator as it is.                                                      *)
C28_FoldAndSizeHint ==
    /\ (fpc \in {"iterating", "exhausted"}) =>
          LET it == iter[1]
              f == IF it.kind = "BlockIterator" THEN BlockIterator_fold(it, <<>>)
                   ELSE QueryResponseIterator_fold(it, <<>>)
              d == C28_Drain(it)
          IN  /\ f = d
              /\ ~ d.panic => Len(d.accu) = C28_Left
              /\ C28_Left = 0 =>
                    C28_Next(it) = [item |-> None, iter |-> it, panic |-> FALSE]
    /\ fpc = "folded" =>
          C28_Drain(C28_Fresh) = [accu |-> yielded \o folded[1], panic |-> FALSE]
    /\ fpc = "fold_panicked" => C28_Drain(C28_Fresh).panic
    /\ hint # None => hint[1] = <<C28_Left, Some(C28_Left)>>

C28_Witness ==
    /\ file # None
    /\ fpc = "folded"
    /\ Len(yielded) = 1
    /\ Len(folded[1]) = 1
    /\ folded[1][1] = <<FileBlocks[2], FileParams[IndexOfBlock(2) + 1]>>
    /\ IndexOfBlock(2) = 1

(* C29: on a Block whose block_tables is absent, iter_query_responses     *)
(* panics in the call, before an item is asked for, whether                *)
(* query_responses is absent, empty or not; on a Block whose block_tables  *)
(* is present the call does not panic, and with query_responses absent     *)
(* the iteration returns no item.                                          *)
C29_PanicsWithoutBlockTables ==
    (self_block # None /\ fpc # "block") =>
        IF self_block[1].block_tables = None
        THEN /\ fpc = "panicked"
             /\ iter = None
             /\ yielded = <<>>
             /\ folded = None
        ELSE /\ fpc \notin {"panicked", "fold_panicked"}
             /\ self_block[1].query_responses = None =>
                   /\ yielded = <<>>
                   /\ folded # None => folded[1] = <<>>
                   /\ iter # None => QueryResponseIterator_next(iter[1]).item = None

C29_Witness ==
    /\ self_block # None
    /\ self_block[1].block_tables = None
    /\ self_block[1].query_responses = None
    /\ fpc = "panicked"
    /\ iter = None

---------------------------------------------------------------------------
(* The debug CLI: main of src/bin/c-dns-debug-print.rs *)

\* Largest number of command-line arguments.
MaxArgs == 3

\* the files that exist, with what their content is to the deserialization
\* of a File: "C-DNS" deserializes, "garbage" does not
FileSystem == [path \in {"good.cdns", "bad.cdns"} |->
                  IF path = "good.cdns" THEN "C-DNS" ELSE "garbage"]

ArgValues ==
    {"-h", "--help", "--dump-serialized", "good.cdns", "bad.cdns", "missing.cdns"}
ArgLists == UNION {[1 .. n -> ArgValues] : n \in 0 .. MaxArgs}

\* fs::read(file)
fs_read(path) ==
    IF path \in DOMAIN FileSystem THEN Ok(FileSystem[path])
    ELSE Fail("io", path)

\* serde_path_to_error::deserialize::<_, File> of the content of a file
deserialize_buffer(content) ==
    IF content = "C-DNS" THEN Ok(content) ELSE Fail("deserialize", content)

\* the exit code of a main that returns Result<(), Box<dyn Error>>
exit_code(result) == IF result.ok THEN 0 ELSE 1

InitCli ==
    /\ args \in ArgLists
    /\ dump_serialized = FALSE
    /\ arg = 0
    /\ buffer = None
    /\ printed = <<>>
    /\ written = {}
    /\ exit = None
    /\ cpc = "start"
    /\ CodecIdle /\ ScalarIdle /\ FileIdle /\ FmtIdle

\* lines 10-30: no argument or a leading -h / --help prints the help and
\* returns Ok(()); a leading --dump-serialized is taken as the flag
ParseArgs ==
    /\ cpc = "start"
    /\ IF Len(args) = 0 \/ args[1] \in {"-h", "--help"}
       THEN /\ printed' = Append(printed, <<"stdout", "help">>)
            /\ exit' = Some(exit_code(Ok(<<>>)))
            /\ cpc' = "exited"
            /\ UNCHANGED <<dump_serialized, arg>>
       ELSE /\ dump_serialized' = (args[1] = "--dump-serialized")
            /\ arg' = IF args[1] = "--dump-serialized" THEN 1 ELSE 0
            /\ cpc' = "loop"
            /\ UNCHANGED <<printed, exit>>
    /\ UNCHANGED <<args, buffer, written>>
    /\ UNCHANGED <<codec_vars, scalar_vars, file_vars, fmt_vars>>

\* lines 32-34: the next argument is read as a file; the error of fs::read
\* is returned from main by the ? operator
ReadFile ==
    /\ cpc = "loop"
    /\ arg < Len(args)
    /\ LET r == fs_read(args[arg + 1])
       IN  IF r.ok
           THEN /\ buffer' = Some(r.val)
                /\ cpc' = "decode"
                /\ UNCHANGED exit
           ELSE /\ exit' = Some(exit_code(r))
                /\ cpc' = "exited"
                /\ UNCHANGED buffer
    /\ arg' = arg + 1
    /\ UNCHANGED <<args, dump_serialized, printed, written>>
    /\ UNCHANGED <<codec_vars, scalar_vars, file_vars, fmt_vars>>

\* lines 35-57: the content is deserialized; the File is printed (and
\* written again with --dump-serialized), an error is printed to stderr
DecodeBuffer ==
    /\ cpc = "decode"
    /\ LET r == deserialize_buffer(buffer[1])
           path == args[arg]
       IN  IF r.ok
           THEN /\ printed' = Append(printed, <<"stdout", path>>)
                /\ written' = IF dump_serialized THEN written \cup {path}
                              ELSE written
           ELSE /\ printed' = Append(printed, <<"stderr", path>>)
                /\ UNCHANGED written
    /\ buffer' = None
    /\ cpc' = "loop"
    /\ UNCHANGED <<args, dump_serialized, arg, exit>>
    /\ UNCHANGED <<codec_vars, scalar_vars, file_vars, fmt_vars>>

\* line 59: Ok(()) after the last argument
ReturnOk ==
    /\ cpc = "loop"
    /\ arg = Len(args)
    /\ exit' = Some(exit_code(Ok(<<>>)))
    /\ cpc' = "exited"
    /\ UNCHANGED <<args, dump_serialized, arg, buffer, printed, written>>
    /\ UNCHANGED <<codec_vars, scalar_vars, file_vars, fmt_vars>>

NextCli ==
    \/ ParseArgs
    \/ ReadFile
    \/ DecodeBuffer
    \/ ReturnOk

SpecCli == InitCli /\ [][NextCli]_vars

(* C19: a file that fails to decode does not stop the loop (the next FILE  *)
(* argument is read after it), and when the process has exited with code 0 *)
(* no file has failed to decode: a decode failure makes the exit code      *)
(* non-zero once all files have been processed.                            *)
C19_ExitCode ==
    /\ (cpc = "loop" /\ arg >= 1 /\ arg < Len(args)
          /\ printed # <<>> /\ printed[Len(printed)] = <<"stderr", args[arg]>>)
          => ENABLED ReadFile
    /\ (cpc = "exited" /\ exit = Some(0))
          => \A k \in 1 .. Len(printed) : printed[k][1] # "stderr"

---------------------------------------------------------------------------
(* C20: the serialization writes the declared fields in ascending          *)
(* declaration position, the field at position i under the key             *)
(* i + offset (offset 1 for SomeKeys, 0 for the records of the data        *)
(* model); an absent optional field is left out and the keys of the later  *)
(* fields stay as they are: SomeKeys with option = None is written with    *)
(* the keys 1, 2, 3, 5.                                                    *)
C20_Offset == IF input.ident = "SomeKeys" THEN 1 ELSE 0

\* the field at position i is written
C20_Emitted(i) ==
    ~ (FieldAt(input, i).skip_serializing_if
         /\ x[1][FieldAt(input, i).label] = None)

\* the place of the entry of the field at position i
C20_Rank(i) == Cardinality({j \in match_fields(input) : j <= i /\ C20_Emitted(j)})

C20_KeysByPosition ==
    pc = "encoded" =>
        /\ \A i \in match_fields(input) :
              C20_Emitted(i) =>
                  b2[1].entries[C20_Rank(i)] =
                     <<i + C20_Offset,
                       ser_value(FieldAt(input, i), x[1][FieldAt(input, i).label])>>
        /\ Len(b2[1].entries) =
              Cardinality({i \in match_fields(input) : C20_Emitted(i)})
                 + Cardinality(DOMAIN ExtrasOf(x[1]))
        /\ (input.ident = "SomeKeys" /\ x[1]["option"] = None) =>
              [p \in Positions(b2[1]) |-> KeyAt(b2[1], p)] = <<1, 2, 3, 5>>

C20_Witness ==
    /\ pc = "encoded"
    /\ input.ident = "SomeKeys"
    /\ x[1]["option"] = None
    /\ [p \in Positions(b2[1]) |-> KeyAt(b2[1], p)] = <<1, 2, 3, 5>>

(* C21: the entries of a serialized record are in a fixed order: first the *)
(* declared fields that are written, in declaration order, then every      *)
(* entry of extra_values, in strictly ascending order of the signed keys,   *)
(* whether the value was built by the caller or deserialized from a map    *)
(* that gave the negative keys in another order.                           *)
C21_NumFields == Cardinality({i \in match_fields(input) : C20_Emitted(i)})

C21_FieldsThenExtrasAscending ==
    pc = "encoded" =>
        LET es == b2[1].entries
            n == C21_NumFields
        IN  /\ n <= Len(es)
            /\ \A p \in 1 .. n :
                  \E i \in match_fields(input) :
                      /\ C20_Emitted(i)
                      /\ C20_Rank(i) = p
                      /\ es[p][1] = i + input.attrs.offset
            /\ \A p, q \in (n + 1) .. Len(es) : p < q => es[p][1] < es[q][1]
            /\ {es[p] : p \in (n + 1) .. Len(es)} =
                  {<<k, ExtrasOf(x[1])[k]>> : k \in DOMAIN ExtrasOf(x[1])}

C21_Witness ==
    /\ b # None /\ src = "b" /\ pc = "encoded"
    /\ Len(b[1].entries) = 3
    /\ KeyAt(b[1], 1) = -1
    /\ KeyAt(b[1], 2) = -2
    /\ KeyAt(b[1], 3) \in DeclaredKeys(input)
    /\ [p \in Positions(b2[1]) |-> KeyAt(b2[1], p)] = <<KeyAt(b[1], 3), -2, -1>>

(* C22: a record type with emit_length = true is written with a           *)
(* definite-length header whose count is the number of entries that       *)
(* follow: one for every declared field that is not skipped and one for    *)
(* every entry of extra_values.  A record type with emit_length = false    *)
(* is written with an indefinite-length header, whatever its value.        *)
C22_AnnouncedLength ==
    pc = "encoded" =>
        IF input.attrs.emit_length
        THEN /\ b2[1].hdr = Some(Len(b2[1].entries))
             /\ b2[1].hdr[1] = C21_NumFields + Cardinality(DOMAIN ExtrasOf(x[1]))
        ELSE b2[1].hdr = None

C22_Witness ==
    /\ pc = "encoded"
    /\ input.attrs.emit_length
    /\ \E i \in match_fields(input) : ~ C20_Emitted(i)
    /\ DOMAIN ExtrasOf(x[1]) # {}
    /\ b2[1].hdr = Some(Len(b2[1].entries))
    /\ Len(b2[1].entries) < Len(input.fields)

(* C24: every value a deserialization returns has only strictly negative   *)
(* keys in its extra_values, so none of them is the key of a declared      *)
(* field, and the map written for a value that came out of a               *)
(* deserialization has pairwise distinct keys.                             *)
C24_DecodedExtrasNegative ==
    /\ pc = "decoded" =>
          \A k \in DOMAIN ExtrasOf(cur[1]) : k < 0 /\ k \notin DeclaredKeys(input)
    /\ (b # None /\ pc = "encoded") =>
          /\ \A k \in DOMAIN ExtrasOf(x[1]) : k < 0 /\ k \notin DeclaredKeys(input)
          /\ DistinctKeys(b2[1])

C24_Witness ==
    /\ b # None /\ pc = "encoded"
    /\ DOMAIN ExtrasOf(x[1]) = {-2, -1}
    /\ Len(b2[1].entries) = 2
    /\ DistinctKeys(b2[1])
    /\ ~ DistinctKeys(b[1])

(* C25: a negative key that occurs more than once in an input map does    *)
(* not make the deserialization fail (no error is returned at an entry     *)
(* with a negative key); the extra_values of the value returned hold one   *)
(* entry for each negative key of the map, with the value of the last      *)
(* occurrence of the key.                                                  *)
C25_LastNegativeWins ==
    /\ (pc = "failed" /\ error[1].kind # "missing_field") => KeyAt(wire, pos) >= 0
    /\ (pc = "decoded" /\ has_extras(input)) =>
          /\ DOMAIN ExtrasOf(cur[1]) =
                {KeyAt(wire, p) : p \in {q \in Positions(wire) : KeyAt(wire, q) < 0}}
          /\ \A p \in Positions(wire) :
                (/\ KeyAt(wire, p) < 0
                 /\ \A q \in Positions(wire) : q > p => KeyAt(wire, q) # KeyAt(wire, p))
                    => ExtrasOf(cur[1])[KeyAt(wire, p)] = ValAt(wire, p)

C25_Witness ==
    /\ FirstOk
    /\ \E p, q \in Positions(b[1]) :
          /\ p < q
          /\ KeyAt(b[1], p) < 0
          /\ KeyAt(b[1], q) = KeyAt(b[1], p)
          /\ ValAt(b[1], q) # ValAt(b[1], p)
          /\ \A r \in Positions(b[1]) : r > q => KeyAt(b[1], r) # KeyAt(b[1], q)
          /\ ExtrasOf(x[1])[KeyAt(b[1], q)] = ValAt(b[1], q)

(* C26: for a record type without an extras field (ClassType, Question)  *)
(* an entry with a negative key is read and dropped: the map deserializes  *)
(* like the map without its negative entries (both fail, or both return    *)
(* the same value, which has the declared fields only), and the map        *)
(* written for the value has no negative key.                              *)
C26_NonNegative(e) == e[1] >= 0
C27_Misused == b = None /\ \E k \in DOMAIN ExtrasOf(x[1]) : k >= 0

\* every entry of extra_values with a non-negative key is written behind
\* the declared fields, as a second entry of its key if a declared field
\* was written under that key
C27_Written ==
    \A k \in DOMAIN ExtrasOf(x[1]) :
        k >= 0 =>
            /\ \E q \in Positions(b2[1]) :
                  /\ q > C21_NumFields
                  /\ b2[1].entries[q] = <<k, ExtrasOf(x[1])[k]>>
            /\ (k \in DeclaredKeys(input) /\ C20_Emitted(k - input.attrs.offset)) =>
                  \E p \in 1 .. C21_NumFields : KeyAt(b2[1], p) = k

\* the non-negative key k of the extras is the key of an optional field
\* that is absent, and so not written
C27_TakesSkipped(k) ==
    /\ k \in DeclaredKeys(input)
    /\ ~ C20_Emitted(k - input.attrs.offset)

---------------------------------------------------------------------------
(* Debug formatting: the impls of fmt::Debug of the records that carry     *)
(* extra_values, and the macros of utils.rs they are written with.  What   *)
(* fmt writes is the name given to debug_struct and the sequence of the    *)
(* <<name, value>> pairs given to DebugStruct::field.                      *)

BlockParameters ==
    [ident |-> "BlockParameters", attrs |-> StructAttrsDefault,
     fields |-> << Req("storage_parameters"), Opt("collection_parameters"),
                   Extras >>]

AddressEventCount ==
    [ident |-> "AddressEventCount", attrs |-> StructAttrsDefault,
     fields |-> << Req("ae_type"), Opt("ae_code"), Req("ae_address_index"),
                   Opt("ae_transport_flags"), Req("ae_count"), Extras >>]

\* the record types that are formatted
FmtTypes == {FilePreamble, BlockParameters, Block, BlockPreamble, AddressEventCount}

\* f.debug_struct(name)
debug_struct(name) == [name |-> name, fields |-> <<>>]
\* ds.field(name, &value)
ds_field(ds, name, value) == [ds EXCEPT !.fields = Append(@, <<name, value>>)]

RECURSIVE debug_unwrap_option_single_field(_, _, _)
\* if let Some(field) = &self.field { ds.field(stringify!(field), &field); }
\* for every field of the list
debug_unwrap_option_single_field(self, ds, idents) ==
    IF idents = <<>> THEN ds
    ELSE debug_unwrap_option_single_field(
             self,
             IF self[Head(idents)] # None
             THEN ds_field(ds, Head(idents), self[Head(idents)][1])
             ELSE ds,
             Tail(idents))

RECURSIVE debug_extra_values_from(_, _, _)
debug_extra_values_from(es, p, ds) ==
    IF p = 0 THEN ds
    ELSE debug_extra_values_from(es, p - 1,
                                 ds_field(ds, ToString(es[p][1]), es[p][2]))

\* for (key, value) in self.extra_values.iter().rev()
\*     { ds.field(&format!("{}", key), &value); }
debug_extra_values(self, ds) ==
    LET es == Iter(self["extra_values"])
    IN  debug_extra_values_from(es, Len(es), ds)

\* the impl the macro debug_unwrap_option_fields writes
debug_unwrap_option_fields(struct, self, idents) ==
    debug_extra_values(
        self, debug_unwrap_option_single_field(self, debug_struct(struct), idents))

\* #[derive(Debug)]: every field under its name, an Option as None or
\* Some(_), the BTreeMap as one field
derive_Debug(ty, self) ==
    [name |-> ty.ident,
     fields |-> [p \in 1 .. Len(ty.fields) |->
                   <<ty.fields[p].label, self[ty.fields[p].label]>>]]

fmt_BlockParameters(self) ==
    debug_unwrap_option_single_field(
        self,
        ds_field(debug_struct("StorageParameters"),
                 "storage_parameters", self["storage_parameters"]),
        <<"collection_parameters">>)

fmt_Block(self) ==
    debug_unwrap_option_single_field(
        self,
        ds_field(debug_struct("Block"), "block_preamble", self["block_preamble"]),
        <<"block_statistics", "block_tables", "query_responses",
          "address_event_counts", "malformed_messages">>)

fmt_AddressEventCount(self) ==
    LET ds1 == ds_field(debug_struct("AddressEventCount"), "ae_type", self["ae_type"])
        ds2 == debug_unwrap_option_single_field(self, ds1, <<"ae_code">>)
        ds3 == ds_field(ds2, "ae_address_index", self["ae_address_index"])
        ds4 == debug_unwrap_option_single_field(self, ds3, <<"ae_transport_flags">>)
    IN  ds_field(ds4, "ae_count", self["ae_type"])

\* <T as fmt::Debug>::fmt
fmt(ty, self) ==
    IF ty.ident = "FilePreamble" THEN derive_Debug(ty, self)
    ELSE IF ty.ident = "BlockParameters" THEN fmt_BlockParameters(self)
    ELSE IF ty.ident = "Block" THEN fmt_Block(self)
    ELSE IF ty.ident = "AddressEventCount" THEN fmt_AddressEventCount(self)
    ELSE debug_unwrap_option_fields(
             "BlockPreamble", self, <<"earliest_time", "block_parameters_index">>)

\* the extra_values a decoded record can hold: any of the negative keys
FmtExtraMaps == UNION {[D -> CborVal] : D \in SUBSET NegKeys}
FmtValues(ty) ==
    {[v EXCEPT !["extra_values"] = m] : v \in Values(ty), m \in FmtExtraMaps}

InitFmt ==
    /\ CodecIdle /\ ScalarIdle /\ FileIdle /\ CliIdle
    /\ fty \in {Some(ty) : ty \in FmtTypes}
    /\ fself \in {Some(v) : v \in FmtValues(fty[1])}
    /\ fout = None
    /\ mpc = "value"

\* format!("{:?}", fself)
Debug_fmt ==
    /\ mpc = "value"
    /\ fout' = Some(fmt(fty[1], fself[1]))
    /\ mpc' = "formatted"
    /\ UNCHANGED <<fty, fself>>
    /\ UNCHANGED <<codec_vars, scalar_vars, file_vars, cli_vars>>

NextFmt == Debug_fmt

SpecFmt == InitFmt /\ [][NextFmt]_vars

(* C23: the Debug rendering of a record that carries extra_values leaves   *)
(* out every optional field that is absent, shows the other declared       *)
(* fields in declaration order, and after them every entry of              *)
(* extra_values in ascending key order, each under its key written as a    *)
(* decimal integer.                                                        *)
C23_DebugRendering ==
    mpc = "formatted" =>
        LET ty == fty[1]
            self == fself[1]
            out == fout[1].fields
            shown == {i \in match_fields(ty) :
                        ~ (FieldAt(ty, i).optional /\ self[FieldAt(ty, i).label] = None)}
            ks == SortedKeys(DOMAIN self["extra_values"])
        IN  /\ Len(out) = Cardinality(shown) + Len(ks)
            /\ \A i \in shown :
                  out[Cardinality({j \in shown : j <= i})][1] = FieldAt(ty, i).label
            /\ \A q \in 1 .. Len(ks) :
                  /\ out[Cardinality(shown) + q][1] = ToString(ks[q])
                  /\ out[Cardinality(shown) + q][2] = self["extra_values"][ks[q]]

---------------------------------------------------------------------------
(* NameOrRdata::to_string_domain.  A String is the sequence of the bytes   *)
(* of its UTF-8 form; the text "<invalid-domain>" is kept as one unit.     *)

NameOrRdata == [kind |-> "NameOrRdata", ident |-> "NameOrRdata"]

\* b'.'
Dot == 46

\* "<invalid-domain>".to_string()
InvalidDomain == <<"<invalid-domain>">>

\* String::from_utf8, on bytes that are ASCII or 0xFF: a byte above 0x7F
\* that is no part of a multi-byte sequence makes the bytes invalid
from_utf8(bs) ==
    IF \A p \in 1 .. Len(bs) : bs[p] < 128 THEN Ok(bs)
    ELSE Fail("FromUtf8Error", "invalid utf-8 sequence")

\* mutant: the end of the bytes ends the name like a zero length byte
loop_body_lenient(bs, ppos, res) ==
    IF ppos >= Len(bs) \/ bs[ppos + 1] = 0
    THEN [kind |-> "break", pos |-> ppos, res |-> res]
    ELSE LET len == bs[ppos + 1]
         IN  IF ppos + 1 + len > Len(bs)
             THEN [kind |-> "panic", pos |-> ppos + 1, res |-> res]
             ELSE [kind |-> "continue",
                   pos |-> ppos + 1 + len,
                   res |-> res \o SubSeq(bs, ppos + 2, ppos + 1 + len) \o <<Dot>>]

\* the body of the loop of to_string_domain, ppos being its pos:
\* self.0[pos] panics when pos is no index of the bytes, and [..len] panics
\* when the label does not fit into the rest of the bytes
loop_body(bs, ppos, res) ==
    IF ppos >= Len(bs)
    THEN [kind |-> "panic", pos |-> ppos, res |-> res]
    ELSE LET len == bs[ppos + 1]
         IN  IF len = 0
             THEN [kind |-> "break", pos |-> ppos, res |-> res]
             ELSE IF ppos + 1 + len > Len(bs)
             THEN [kind |-> "panic", pos |-> ppos + 1, res |-> res]
             ELSE [kind |-> "continue",
                   pos |-> ppos + 1 + len,
                   res |-> res \o SubSeq(bs, ppos + 2, ppos + 1 + len) \o <<Dot>>]

\* String::from_utf8(res).unwrap_or_else(|_| "<invalid-domain>".to_string())
unwrap_or_invalid(res) ==
    IF from_utf8(res).ok THEN from_utf8(res).val ELSE InvalidDomain

\* the bytes of a name: length bytes 0, 1 and 2, the letter a and a byte
\* that is no UTF-8
DomainOctets == {0, 1, 2, 97, U8Max}
DomainStrings == UNION {[1 .. n -> DomainOctets] : n \in 0 .. MaxBytes}

InitDomain ==
    /\ sty = Some(NameOrRdata)
    /\ item \in {Some(bs) : bs \in DomainStrings}
    /\ sval = None
    /\ sout = None
    /\ serror = None
    /\ dom_pos = 0
    /\ dom_res = <<>>
    /\ spc = "item"
    /\ CodecIdle /\ FileIdle /\ CliIdle /\ FmtIdle

DecodeNameOrRdata ==
    /\ spc = "item" /\ sty[1].kind = "NameOrRdata"
    /\ Deserialized(deserialize_byte_buf(item[1]))

\* to_string_domain is entered: let mut res = Vec::with_capacity(..);
\* let mut pos = 0;
CallToStringDomain ==
    /\ spc = "value" /\ sty[1].kind = "NameOrRdata"
    /\ dom_pos' = 0
    /\ dom_res' = <<>>
    /\ spc' = "loop"
    /\ UNCHANGED <<sty, item, sval, sout, serror>>
    /\ UNCHANGED <<codec_vars, file_vars, cli_vars, fmt_vars>>

\* one iteration of the loop; the break is followed by the return
LoopToStringDomain ==
    /\ spc = "loop"
    /\ LET r == loop_body(sval[1], dom_pos, dom_res)
       IN  /\ dom_pos' = r.pos
           /\ dom_res' = r.res
           /\ spc' = IF r.kind = "panic" THEN "panicked"
                     ELSE IF r.kind = "break" THEN "read" ELSE "loop"
           /\ sout' = IF r.kind = "break" THEN Some(unwrap_or_invalid(r.res))
                      ELSE sout
    /\ UNCHANGED <<sty, item, sval, serror>>
    /\ UNCHANGED <<codec_vars, file_vars, cli_vars, fmt_vars>>

NextDomain ==
    \/ DecodeNameOrRdata
    \/ CallToStringDomain
    \/ LoopToStringDomain

\* a call that was started runs on: the loop is sequential code
SpecDomain == InitDomain /\ [][NextDomain]_vars /\ WF_vars(NextDomain)

\* the positions of the length bytes of a name that is well formed: the
\* chain starts at the first byte, every non-zero length byte is followed,
\* behind its label, by the next length byte, and a zero length byte is
\* among them.  There is at most one such set.
C30_Chains(bs) ==
    {S \in SUBSET (1 .. Len(bs)) :
        /\ 1 \in S
        /\ \E z \in S : bs[z] = 0
        /\ \A p \in S : bs[p] # 0 => p + bs[p] + 1 \in S
        /\ \A p \in S : p = 1 \/ \E q \in S : bs[q] # 0 /\ q + bs[q] + 1 = p}

\* the labels of a well-formed name, each followed by '.'
C30_Labels(bs) ==
    LET S == CHOOSE T \in C30_Chains(bs) : TRUE
        z == CHOOSE p \in S : bs[p] = 0
    IN  [q \in 1 .. (z - 1) |-> IF q + 1 \in S THEN Dot ELSE bs[q + 1]]

C30_Returned == sty # None /\ sty[1].kind = "NameOrRdata" /\ spc \in {"read", "panicked"}

(* C30 as stated: to_string_domain returns the labels of the name, each   *)
(* followed by '.', exactly when the chain of length bytes reaches a zero  *)
(* length byte with every label inside the bytes, and panics otherwise.    *)
C30_LabelsOrPanic ==
    C30_Returned =>
        IF C30_Chains(sval[1]) # {}
        THEN spc = "read" /\ sout[1] = C30_Labels(sval[1])
        ELSE spc = "panicked"

\* the outcome of a call that has returned or panicked
C30_Outcome ==
    C30_Returned =>
        IF C30_Chains(sval[1]) # {}
        THEN /\ spc = "read"
             /\ IF \A p \in 1 .. Len(C30_Labels(sval[1])) : C30_Labels(sval[1])[p] < 128
                THEN sout[1] = C30_Labels(sval[1])
                ELSE sout[1] = InvalidDomain
        ELSE spc = "panicked"

\* in the loop pos grows with every iteration and stays within the bytes
C30_Progress ==
    [][(spc = "loop" /\ spc' = "loop") =>
          (dom_pos' > dom_pos /\ dom_pos' <= Len(sval[1]))]_vars

(* C30, amended: to_string_domain returns exactly when the chain of       *)
(* length bytes reaches a zero length byte with every label inside the     *)
(* bytes, and panics otherwise (for the empty byte string too); it         *)
(* returns the labels, each followed by '.', if these bytes are valid      *)
(* UTF-8, and the text "<invalid-domain>" if they are not; every call      *)
(* returns or panics, it never loops forever.                              *)
C30_ToStringDomain ==
    /\ []C30_Outcome
    /\ C30_Progress
    /\ [](spc = "value" => <>(spc \in {"read", "panicked"}))

C30_Witness ==
    /\ C30_Returned
    /\ sval[1] = <<1, 97, 1, 97, 0>>
    /\ spc = "read"
    /\ sout[1] = <<97, Dot, 97, Dot>>

====
